---- MODULE Spec2Model ----
(***************************************************************************)
(* Model of the meeting-slot matching engine of the "meaningful" backend   *)
(* (backend/src/services/friends_availability.py and the models and        *)
(* handlers around it).                                                    *)
(*                                                                         *)
(* Instants are integers: minutes since 00:00 UTC of a reference Monday.   *)
(* A timezone-aware local datetime is its wall-clock minute count in the   *)
(* zone it belongs to; astimezone() adds or removes the zone's UTC offset. *)
(* The zones of the model have no daylight-saving transitions.             *)
(***************************************************************************)
EXTENDS Integers, Sequences, FiniteSets, TLC

(***************************************************************************)
(* Bounds of the model                                                     *)
(***************************************************************************)
\* longest slot list a template holds for one weekday
MaxSlotsPerDay == 2
\* longest busy list the free/busy source returns
MaxBusy == 1
\* largest max_suggestions a caller passes
MaxSuggestions == 2

(***************************************************************************)
(* Time                                                                    *)
(***************************************************************************)
\* timedelta(days=1)
MinutesPerDay == 1440

\* strftime("%A").lower() of the days following the reference Monday
WeekdayNames ==
    <<"monday", "tuesday", "wednesday", "thursday", "friday", "saturday", "sunday">>

DAY_KEYS ==
    {"sunday", "monday", "tuesday", "wednesday", "thursday", "friday", "saturday"}

\* the zones ZoneInfo() resolves in the model, with their UTC offsets in minutes
Zones == {"UTC", "Africa/Lagos"}

UtcOffset(tz) == IF tz = "Africa/Lagos" THEN 60 ELSE 0

\* local.astimezone(timezone.utc)
ToUtc(local, tz) == local - UtcOffset(tz)

\* utc.astimezone(tz)
ToLocal(utc, tz) == utc + UtcOffset(tz)

\* dt.replace(hour=0, minute=0, second=0, microsecond=0)
Midnight(t) == (t \div MinutesPerDay) * MinutesPerDay

\* dt.strftime("%A").lower()
DayKey(t) == WeekdayNames[((t \div MinutesPerDay) % 7) + 1]

\* _format_datetime: the ISO-8601 text of an instant, as <<day, hour, minute>>
FormatDatetime(t) ==
    <<t \div MinutesPerDay, (t % MinutesPerDay) \div 60, t % 60>>

\* datetime.fromisoformat of a formatted instant
ParseDatetime(f) == f[1] * MinutesPerDay + f[2] * 60 + f[3]

Max2(a, b) == IF a >= b THEN a ELSE b
Min2(a, b) == IF a <= b THEN a ELSE b

(***************************************************************************)
(* TimeSlot and the weekly template (models/availability.py)               *)
(***************************************************************************)
\* a TimeSlot holds "HH:MM" texts; the model keeps each as <<hour, minute>>
Slot(sh, sm, eh, em) == [start |-> <<sh, sm>>, end |-> <<eh, em>>]

\* TimeSlot.from_mapping accepts exactly the slots with start < end
ValidSlot(slot) ==
    /\ slot.start[1] \in 0..23 /\ slot.start[2] \in 0..59
    /\ slot.end[1] \in 0..23 /\ slot.end[2] \in 0..59
    /\ \/ slot.start[1] < slot.end[1]
       \/ slot.start[1] = slot.end[1] /\ slot.start[2] < slot.end[2]

\* map(int, slot.start.split(":")) turned into minutes after midnight
MinuteOfDay(hm) == hm[1] * 60 + hm[2]

\* _slot_range(day_reference, slot)
SlotRange(day_reference, slot) ==
    LET start == Midnight(day_reference) + MinuteOfDay(slot.start)
        end   == Midnight(day_reference) + MinuteOfDay(slot.end)
    IN  IF end <= start THEN <<start, end + MinutesPerDay>> ELSE <<start, end>>

(***************************************************************************)
(* Interval lists                                                          *)
(***************************************************************************)
\* list.sort(key=lambda item: item[0]): stable insertion by start
RECURSIVE InsertByStart(_, _)
InsertByStart(sorted, item) ==
    IF sorted = <<>> THEN <<item>>
    ELSE IF item[1] < Head(sorted)[1] THEN <<item>> \o sorted
    ELSE <<Head(sorted)>> \o InsertByStart(Tail(sorted), item)

RECURSIVE SortFrom(_, _)
SortFrom(items, acc) ==
    IF items = <<>> THEN acc
    ELSE SortFrom(Tail(items), InsertByStart(acc, Head(items)))

SortByStart(items) == SortFrom(items, <<>>)

\* [(s, e) for s, e in items if s < e]
RECURSIVE PositiveOnly(_)
PositiveOnly(items) ==
    IF items = <<>> THEN <<>>
    ELSE IF Head(items)[1] < Head(items)[2]
         THEN <<Head(items)>> \o PositiveOnly(Tail(items))
         ELSE PositiveOnly(Tail(items))

(***************************************************************************)
(* Slot Expander: _expand_slots_within_window                              *)
(***************************************************************************)
\* the inner "for slot in day_slots" loop for one cursor day
RECURSIVE ExpandDay(_, _, _, _)
ExpandDay(day_slots, cursor, window_start, window_end) ==
    IF day_slots = <<>> THEN <<>>
    ELSE LET r          == SlotRange(cursor, Head(day_slots))
             slot_start == Max2(r[1], window_start)
             slot_end   == Min2(r[2], window_end)
             rest       == ExpandDay(Tail(day_slots), cursor, window_start, window_end)
         IN  IF r[2] <= window_start \/ r[1] >= window_end THEN rest
             ELSE IF slot_start < slot_end THEN <<(<<slot_start, slot_end>>)>> \o rest
             ELSE rest

\* the "while cursor < window_end" loop
RECURSIVE ExpandFrom(_, _, _, _)
ExpandFrom(weekly, cursor, window_start, window_end) ==
    IF cursor < window_end
    THEN ExpandDay(weekly[DayKey(cursor)], cursor, window_start, window_end)
         \o ExpandFrom(weekly, cursor + MinutesPerDay, window_start, window_end)
    ELSE <<>>

\* _expand_slots_within_window without slots.sort
ExpandSlotsWithinWindow_Unsorted(weekly, window_start, window_end) ==
    ExpandFrom(weekly, Midnight(window_start), window_start, window_end)

ExpandSlotsWithinWindow(weekly, window_start, window_end) ==
    SortByStart(ExpandFrom(weekly, Midnight(window_start), window_start, window_end))

(***************************************************************************)
(* Busy-Interval Reducer: _parse_busy_windows, _subtract_busy_windows      *)
(***************************************************************************)
\* an Optional value: <<>> is None, <<v>> is the value v
None == <<>>
Some(v) == <<v>>

\* _parse_calendar_datetime: a value of the source is the text of an instant
\* (<<day, hour, minute>>) or a text that is no ISO-8601 timestamp
ParseCalendarDatetime(value) ==
    IF Len(value) = 3 THEN Some(ParseDatetime(value)) ELSE None

RECURSIVE ParseEntries(_)
ParseEntries(busy_periods) ==
    IF busy_periods = <<>> THEN <<>>
    ELSE LET start == ParseCalendarDatetime(Head(busy_periods).start)
             end   == ParseCalendarDatetime(Head(busy_periods).end)
         IN  IF start # None /\ end # None /\ end[1] > start[1]
             THEN <<(<<start[1], end[1]>>)>> \o ParseEntries(Tail(busy_periods))
             ELSE ParseEntries(Tail(busy_periods))

\* _parse_busy_windows without windows.sort
ParseBusyWindows_Unsorted(busy_periods) == ParseEntries(busy_periods)

ParseBusyWindows(busy_periods) == SortByStart(ParseEntries(busy_periods))

\* the "for busy_start, busy_end in busy_windows" loop for one slot (start, end):
\* gives the pieces appended to result, the remainder included
RECURSIVE SubtractWalk(_, _, _)
SubtractWalk(current_start, end, busy_windows) ==
    IF busy_windows = <<>>
    THEN IF current_start < end THEN <<(<<current_start, end>>)>> ELSE <<>>
    ELSE LET busy_start == Head(busy_windows)[1]
             busy_end   == Head(busy_windows)[2]
             rest       == Tail(busy_windows)
         IN  IF busy_end <= current_start \/ busy_start >= end
             THEN SubtractWalk(current_start, end, rest)
             ELSE IF busy_start <= current_start /\ current_start < busy_end
             THEN IF Max2(current_start, busy_end) >= end
                  THEN <<>>
                  ELSE SubtractWalk(Max2(current_start, busy_end), end, rest)
             ELSE IF busy_start > current_start
             THEN <<(<<current_start, Min2(busy_start, end)>>)>>
                  \o (IF Max2(current_start, busy_end) >= end
                      THEN <<>>
                      ELSE SubtractWalk(Max2(current_start, busy_end), end, rest))
             ELSE SubtractWalk(current_start, end, rest)

RECURSIVE SubtractEach(_, _)
SubtractEach(slots, busy_windows) ==
    IF slots = <<>> THEN <<>>
    ELSE SubtractWalk(Head(slots)[1], Head(slots)[2], busy_windows)
         \o SubtractEach(Tail(slots), busy_windows)

\* _subtract_busy_windows without the return for an empty busy list
SubtractBusyWindows_NoEarlyReturn(slots, busy_windows) ==
    SortByStart(PositiveOnly(SubtractEach(slots, busy_windows)))

\* _subtract_busy_windows with the guard "if not busy_windows" inverted
SubtractBusyWindows_GuardInverted(slots, busy_windows) ==
    IF busy_windows # <<>> THEN slots
    ELSE SortByStart(PositiveOnly(SubtractEach(slots, busy_windows)))

SubtractBusyWindows(slots, busy_windows) ==
    IF busy_windows = <<>> THEN slots
    ELSE SortByStart(PositiveOnly(SubtractEach(slots, busy_windows)))

(***************************************************************************)
(* Multi-Participant Intersector: _intersect_pair, _intersect_multiple     *)
(***************************************************************************)
\* the two-pointer loop of _intersect_pair from cursors i, j
RECURSIVE IntersectFrom(_, _, _, _)
IntersectFrom(a, b, i, j) ==
    IF i <= Len(a) /\ j <= Len(b)
    THEN LET start == Max2(a[i][1], b[j][1])
             end   == Min2(a[i][2], b[j][2])
             emit  == IF start < end THEN <<(<<start, end>>)>> ELSE <<>>
         IN  IF a[i][2] < b[j][2]
             THEN emit \o IntersectFrom(a, b, i + 1, j)
             ELSE emit \o IntersectFrom(a, b, i, j + 1)
    ELSE <<>>

IntersectPair(a, b) == IntersectFrom(a, b, 1, 1)

\* [(s, e) for s, e in intersection if e - s >= min_duration]
RECURSIVE AtLeast(_, _)
AtLeast(items, min_duration) ==
    IF items = <<>> THEN <<>>
    ELSE IF Head(items)[2] - Head(items)[1] >= min_duration
         THEN <<Head(items)>> \o AtLeast(Tail(items), min_duration)
         ELSE AtLeast(Tail(items), min_duration)

\* the "for intervals in interval_sets[1:]" loop; <<>> as soon as it is empty
RECURSIVE IntersectRest(_, _, _)
IntersectRest(intersection, interval_sets, duration_minutes) ==
    IF interval_sets = <<>> THEN AtLeast(intersection, duration_minutes)
    ELSE LET next == IntersectPair(intersection, Head(interval_sets))
         IN  IF next = <<>> THEN <<>>
             ELSE IntersectRest(next, Tail(interval_sets), duration_minutes)

IntersectMultiple(interval_sets, duration_minutes) ==
    IF interval_sets = <<>> THEN <<>>
    ELSE IntersectRest(Head(interval_sets), Tail(interval_sets), duration_minutes)

(***************************************************************************)
(* Slicing and confidence (recommend_meeting_slot, _resolve_confidence)    *)
(***************************************************************************)
\* the slicing loop running while current_start < window_end, the last slot
\* cut at the end of the window
RECURSIVE SliceWindow_CutAtWindowEnd(_, _, _, _, _)
SliceWindow_CutAtWindowEnd(slots, current_start, window_end, duration_minutes, max_suggestions) ==
    IF current_start < window_end
    THEN LET grown == Append(slots, <<current_start,
                                      Min2(current_start + duration_minutes, window_end)>>)
         IN  IF Len(grown) >= max_suggestions THEN grown
             ELSE SliceWindow_CutAtWindowEnd(grown, current_start + duration_minutes,
                                             window_end, duration_minutes, max_suggestions)
    ELSE slots

\* the slicing loop without its "if len(overlap_slots) >= max_suggestions: break"
RECURSIVE SliceWindow_NoCap(_, _, _, _, _)
SliceWindow_NoCap(slots, current_start, window_end, duration_minutes, max_suggestions) ==
    IF current_start + duration_minutes <= window_end
    THEN SliceWindow_NoCap(Append(slots, <<current_start, current_start + duration_minutes>>),
                           current_start + duration_minutes, window_end,
                           duration_minutes, max_suggestions)
    ELSE slots

\* the "while current_start + duration <= window_end" loop of one window;
\* slots is overlap_slots so far
RECURSIVE SliceWindow(_, _, _, _, _)
SliceWindow(slots, current_start, window_end, duration_minutes, max_suggestions) ==
    IF current_start + duration_minutes <= window_end
    THEN LET grown == Append(slots, <<current_start, current_start + duration_minutes>>)
         IN  IF Len(grown) >= max_suggestions THEN grown
             ELSE SliceWindow(grown, current_start + duration_minutes, window_end,
                              duration_minutes, max_suggestions)
    ELSE slots

\* the "for window_start, window_end in overlap_windows" loop
RECURSIVE SliceWindows(_, _, _, _)
SliceWindows(slots, overlap_windows, duration_minutes, max_suggestions) ==
    IF overlap_windows = <<>> THEN slots
    ELSE LET grown == SliceWindow(slots, Head(overlap_windows)[1], Head(overlap_windows)[2],
                                  duration_minutes, max_suggestions)
         IN  IF Len(grown) >= max_suggestions THEN grown
             ELSE SliceWindows(grown, Tail(overlap_windows), duration_minutes, max_suggestions)

\* overlap_slots[:max_suggestions]
Truncate(slots, max_suggestions) ==
    IF max_suggestions >= Len(slots) THEN slots
    ELSE SubSeq(slots, 1, Max2(max_suggestions, 0))

\* _resolve_confidence testing any() before all()
ResolveConfidence_AnyFirst(google_flags) ==
    IF \E k \in 1..Len(google_flags) : google_flags[k] THEN "high"
    ELSE IF \A k \in 1..Len(google_flags) : google_flags[k] THEN "medium"
    ELSE "low"

\* _resolve_confidence
ResolveConfidence(google_flags) ==
    IF \A k \in 1..Len(google_flags) : google_flags[k] THEN "high"
    ELSE IF \E k \in 1..Len(google_flags) : google_flags[k] THEN "medium"
    ELSE "low"

(***************************************************************************)
(* State                                                                   *)
(***************************************************************************)
VARIABLES
    pc,                         \* where recommend_meeting_slot stands
    now_utc,                    \* datetime.now(timezone.utc) of the call
    args,                       \* the arguments of the call
    participant_reports,        \* List[ParticipantMatchReport]
    participant_contexts,       \* List[ParticipantContext]
    cursor,                     \* index of the running for-loop
    intervals_per_participant,  \* free intervals (UTC) of each context
    google_confidence_flags,    \* used_google of each context
    window_ranges_utc,          \* search window (UTC) of each context
    busy_seen,                  \* busy_periods the source gave for each context
    overlap_slots,              \* the slots sliced before [:max_suggestions]
    result,                     \* the dict the call returns
    raised,                     \* the exception the call raises
    calls,                      \* calls made to the collaborators
    stored,                     \* what the users table may hold: "validated" or "any"
    friends,                    \* compute_available_now: list_friends(user_id)
    results,                    \* compute_available_now: the evaluations so far
    reads,                      \* what the lookups answered for each evaluated friend
    payload,                    \* _handle_match_slot: the JSON body of the request
    response,                   \* the HTTP response of a handler
    booking,                    \* schedule_meeting_slot: its arguments and locals
    calendar,                   \* the events the owner's primary calendar holds
    interval_sets,              \* _intersect_multiple: the lists handed to it
    overlaps,                   \* _intersect_multiple: what it returned for them
    tables,                     \* the items the DynamoDB tables hold
    inflight,                   \* the requests being handled, each with its locals
    log                         \* the writes the tables took and the answers given

\* the variables recommend_meeting_slot works on
match_vars ==
    <<participant_reports, participant_contexts, intervals_per_participant,
      google_confidence_flags, window_ranges_utc, busy_seen, overlap_slots>>

\* the tables and the requests that write them
table_vars == <<tables, inflight, log>>

\* the variables of the other operations
side_vars ==
    <<stored, friends, results, reads, payload, response, booking, calendar,
      interval_sets, overlaps, table_vars>>

vars ==
    <<pc, now_utc, args, participant_reports, participant_contexts, cursor,
      intervals_per_participant, google_confidence_flags, window_ranges_utc,
      busy_seen, overlap_slots, result, raised, calls, side_vars>>

(***************************************************************************)
(* Inputs of the model                                                     *)
(***************************************************************************)
\* all lists over S of length at most n
SeqsUpTo(S, n) == UNION {[1..m -> S] : m \in 0..n}

\* datetime.now(timezone.utc): Monday 23:30 UTC, already Tuesday in Lagos
NowChoices == {23 * 60 + 30}

Friends == {"f1", "f2"}
FriendIdLists == {<<>>, <<"f1">>, <<"f2", "f1">>}
Durations == {0, 30, 60, 90}
TargetDays == {-1, 0, 1}
WindowDays == {0, 1, 2}

\* the time-of-day ranges a user enters: 09:00-17:00, 12:00-13:00, 12:30-14:00
SlotChoices == {Slot(9, 0, 17, 0), Slot(12, 0, 13, 0), Slot(12, 30, 14, 0)}

\* the weekdays a user fills in
TemplateDays == {"monday", "tuesday"}

\* Availability.weekly for the slot list a user entered
WeeklyOf(day_slots) ==
    [d \in DAY_KEYS |-> IF d \in TemplateDays THEN day_slots ELSE <<>>]

\* the stored availability records: the PUT handler stores validated templates only.
\* A call naming several friends is explored with UTC users holding at most one
\* range per day, which keeps the number of participant combinations bounded.
AvailabilityRecords(friend_ids) ==
    IF Len(friend_ids) <= 1
    THEN {[timezone |-> tz, weekly |-> WeeklyOf(l)] :
            tz \in Zones, l \in SeqsUpTo(SlotChoices, MaxSlotsPerDay)}
    ELSE {[timezone |-> "UTC", weekly |-> WeeklyOf(l)] :
            l \in SeqsUpTo({Slot(9, 0, 17, 0), Slot(12, 0, 13, 0)}, 1)}

\* records a store that was written by other means can hold: a template with an
\* unknown zone name, a slot whose end precedes its start, a slot with hour 25
UncheckedRecords ==
    {[timezone |-> "UTC", weekly |-> WeeklyOf(<<Slot(9, 0, 17, 0)>>)],
     [timezone |-> "Mars/Phobos", weekly |-> WeeklyOf(<<Slot(9, 0, 17, 0)>>)],
     [timezone |-> "UTC", weekly |-> WeeklyOf(<<Slot(13, 0, 12, 0)>>)],
     [timezone |-> "UTC", weekly |-> WeeklyOf(<<Slot(25, 0, 26, 0)>>)]}

\* Availability.from_record raises ValueError on a slot TimeSlot rejects
RecordRejected(record) ==
    \E d \in DAY_KEYS : \E i \in 1..Len(record.weekly[d]) : ~ValidSlot(record.weekly[d][i])

\* users_table.get_item: no item, or an item with or without availability / tokens
UserLookups(friend_ids) ==
    {None, Some([availability |-> None, google_tokens |-> FALSE])}
    \cup (IF stored = "any"
          THEN {Some([availability |-> Some(a), google_tokens |-> FALSE]) :
                  a \in UncheckedRecords}
          ELSE {Some([availability |-> Some(a), google_tokens |-> g]) :
                  a \in AvailabilityRecords(friend_ids), g \in BOOLEAN})

\* friends_table.get_item: no item, a contact, or a linked app user
FriendLookups(friend_id) ==
    {None,
     Some([friend_type |-> "contact", linked_user_id |-> None]),
     Some([friend_type |-> "app_user", linked_user_id |-> Some(friend_id)])}

\* what the free/busy source holds, as minutes after the start of the queried
\* window: a commitment 13:30-14:30, and an entry whose end precedes its start
BusyOffsets == {<<13 * 60 + 30, 14 * 60 + 30>>, <<10 * 60, 9 * 60>>}

\* get_busy_periods raises, or answers a busy list; with it come refreshed
\* credentials when the stored ones had expired (explored for the empty
\* list), and users_table.update_item then takes the write or fails (written)
BusyAnswers ==
    {[error |-> TRUE, busy |-> <<>>, refreshed |-> FALSE, written |-> TRUE]}
    \cup {a \in [error : {FALSE}, busy : SeqsUpTo(BusyOffsets, MaxBusy),
                  refreshed : BOOLEAN, written : BOOLEAN] :
             /\ a.refreshed <=> (a.busy = <<>>)
             /\ ~a.refreshed => a.written}

\* the answer for a context without tokens: the source is not asked
NotAsked == [error |-> FALSE, busy |-> <<>>, refreshed |-> FALSE, written |-> TRUE]

\* the busy_periods of an answer for the window starting at window_start_utc
RECURSIVE BusyPeriods(_, _)
BusyPeriods(offsets, window_start_utc) ==
    IF offsets = <<>> THEN <<>>
    ELSE <<[start |-> FormatDatetime(window_start_utc + Head(offsets)[1]),
            end   |-> FormatDatetime(window_start_utc + Head(offsets)[2])]>>
         \o BusyPeriods(Tail(offsets), window_start_utc)

OwnerId == "u0"

NoCalls ==
    [get_friend |-> 0, get_user |-> 0, get_busy_periods |-> 0, update_user |-> 0,
     list_friends |-> 0, create_event |-> 0]

NoArgs ==
    [friend_ids |-> <<>>, target_days_ahead |-> 0, window_days |-> 0,
     duration_minutes |-> 0, max_suggestions |-> 0]

\* no call of the service is under way
ServiceIdle ==
    /\ args = NoArgs
    /\ participant_reports = <<>>
    /\ participant_contexts = <<>>
    /\ cursor = 0
    /\ intervals_per_participant = <<>>
    /\ google_confidence_flags = <<>>
    /\ window_ranges_utc = <<>>
    /\ busy_seen = <<>>
    /\ overlap_slots = <<>>
    /\ result = None
    /\ raised = None
    /\ calls = NoCalls

\* nothing of the other operations has happened
SideIdle ==
    /\ friends = <<>>
    /\ results = <<>>
    /\ reads = <<>>
    /\ payload = None
    /\ response = None
    /\ booking = None
    /\ calendar = <<>>
    /\ interval_sets = <<>>
    /\ overlaps = <<>>

\* no table is written and no request to write one is under way
TablesIdle ==
    /\ tables = <<>>
    /\ inflight = <<>>
    /\ log = <<>>

Init ==
    /\ pc = "idle"
    /\ now_utc \in NowChoices
    /\ args = NoArgs
    /\ participant_reports = <<>>
    /\ participant_contexts = <<>>
    /\ cursor = 0
    /\ intervals_per_participant = <<>>
    /\ google_confidence_flags = <<>>
    /\ window_ranges_utc = <<>>
    /\ busy_seen = <<>>
    /\ overlap_slots = <<>>
    /\ result = None
    /\ raised = None
    /\ calls = NoCalls
    /\ stored = "validated"
    /\ SideIdle /\ TablesIdle

(***************************************************************************)
(* recommend_meeting_slot                                                  *)
(***************************************************************************)
\* the call: recommend_meeting_slot(user_id, friend_ids, ...)
Call ==
    /\ pc = "idle"
    /\ \E f \in FriendIdLists, t \in TargetDays, w \in WindowDays,
          d \in Durations, m \in 1..MaxSuggestions :
          args' = [friend_ids |-> f, target_days_ahead |-> t, window_days |-> w,
                   duration_minutes |-> d, max_suggestions |-> m]
    /\ pc' = "validate"
    /\ UNCHANGED <<now_utc, participant_reports, participant_contexts, cursor,
                   intervals_per_participant, google_confidence_flags,
                   window_ranges_utc, busy_seen, overlap_slots, result, raised, calls>>
    /\ UNCHANGED side_vars

\* the argument checks without "if not friend_ids"
ValidationError_FriendsUnchecked(a) ==
    IF a.duration_minutes <= 0 THEN Some("duration_minutes must be positive")
    ELSE IF a.target_days_ahead < 0
    THEN Some("target_days_ahead must be zero or greater")
    ELSE IF a.window_days <= 0 THEN Some("window_days must be positive")
    ELSE None

\* the argument checks: the ValueError raised, or None
ValidationError(a) ==
    IF a.friend_ids = <<>>
    THEN Some("At least one friend is required to compute a match")
    ELSE IF a.duration_minutes <= 0 THEN Some("duration_minutes must be positive")
    ELSE IF a.target_days_ahead < 0
    THEN Some("target_days_ahead must be zero or greater")
    ELSE IF a.window_days <= 0 THEN Some("window_days must be positive")
    ELSE None

Validate ==
    /\ pc = "validate"
    /\ IF ValidationError(args) # None
       THEN /\ raised' = Some([type |-> "ValueError", message |-> ValidationError(args)[1]])
            /\ pc' = "raised"
       ELSE /\ raised' = raised
            /\ pc' = "resolve_owner"
    /\ UNCHANGED <<now_utc, args, participant_reports, participant_contexts, cursor,
                   intervals_per_participant, google_confidence_flags,
                   window_ranges_utc, busy_seen, overlap_slots, result, calls>>
    /\ UNCHANGED side_vars

\* ZoneInfo(timezone_name), UTC when the name is unknown
ResolveZone(timezone_name) == IF timezone_name \in Zones THEN timezone_name ELSE "UTC"

\* the report and context built from a user record with availability
ReadyReport(friend, linked_user_id, user) ==
    [friend |-> friend, status |-> "ready",
     timezone |-> Some(ResolveZone(user.availability[1].timezone)),
     google_connected |-> user.google_tokens,
     details |-> IF user.google_tokens THEN None
                 ELSE Some("Using saved weekly availability only."),
     linked_user_id |-> linked_user_id]

ReadyContext(friend, linked_user_id, user) ==
    [friend |-> friend, linked_user_id |-> linked_user_id,
     availability |-> user.availability[1].weekly,
     timezone_name |-> ResolveZone(user.availability[1].timezone),
     google_tokens |-> user.google_tokens]

FailedReport(friend, status, details, linked_user_id) ==
    [friend |-> friend, status |-> status, timezone |-> None, google_connected |-> FALSE,
     details |-> Some(details), linked_user_id |-> linked_user_id]

\* the record read from users_table holds a template Availability.from_record rejects
RaisesOnRecord(user) ==
    /\ user # None
    /\ user[1].availability # None
    /\ RecordRejected(user[1].availability[1])

\* the ValueError TimeSlot.from_mapping raises through Availability.from_record
RecordError == [type |-> "ValueError", message |-> "Start time must be earlier than end time"]

\* _resolve_owner_context(user_id): <<report, context or None>>
ResolveOwnerContext(user) ==
    LET friend == [friendId |-> "user#" \o OwnerId, friendType |-> Some("self")]
    IN  IF user = None
        THEN <<FailedReport(friend, "user_not_found", "Unable to load your profile.", None),
               None>>
        ELSE IF user[1].availability = None
        THEN <<FailedReport(friend, "no_availability",
                            "Set up your weekly availability in Settings.", None), None>>
        ELSE <<ReadyReport(friend, None, user[1]),
               Some(ReadyContext(friend, OwnerId, user[1]))>>

ResolveOwner ==
    /\ pc = "resolve_owner"
    /\ \E user \in UserLookups(args.friend_ids) :
          IF RaisesOnRecord(user)
          THEN /\ pc' = "raised"
               /\ raised' = Some(RecordError)
               /\ UNCHANGED <<participant_reports, participant_contexts, cursor>>
          ELSE LET r == ResolveOwnerContext(user)
               IN  /\ participant_reports' = Append(participant_reports, r[1])
                   /\ participant_contexts' = participant_contexts \o r[2]
                   /\ cursor' = 1
                   /\ pc' = "resolve_friends"
                   /\ UNCHANGED raised
    /\ calls' = [calls EXCEPT !.get_user = @ + 1]
    /\ UNCHANGED <<now_utc, args, intervals_per_participant, google_confidence_flags,
                   window_ranges_utc, busy_seen, overlap_slots, result>>
    /\ UNCHANGED side_vars

\* _resolve_participant_context(user_id, friend_id) for the records the tables
\* hold: <<report, context or None>>; user is read only for a linked friend
ResolveParticipantContext(friend_id, friend, user) ==
    LET friend_payload == [friendId |-> friend_id,
                    friendType |-> IF friend = None THEN None
                                   ELSE Some(friend[1].friend_type)]
    IN  IF friend = None
        THEN <<FailedReport(friend_payload, "unavailable", "Friend relationship not found.", None),
               None>>
        ELSE IF friend[1].linked_user_id = None
        THEN <<FailedReport(friend_payload, "missing_connection",
                            "Friend has not linked their Meaningful account yet.", None),
               None>>
        ELSE IF user = None
        THEN <<FailedReport(friend_payload, "user_not_found",
                            "Unable to load the friend's user profile.",
                            friend[1].linked_user_id), None>>
        ELSE IF user[1].availability = None
        THEN <<FailedReport(friend_payload, "no_availability",
                            "Friend has not configured weekly availability.",
                            friend[1].linked_user_id), None>>
        ELSE <<ReadyReport(friend_payload, friend[1].linked_user_id, user[1]),
               Some(ReadyContext(friend_payload, friend[1].linked_user_id[1], user[1]))>>

\* one turn of "for friend_id in friend_ids"
ResolveFriend ==
    /\ pc = "resolve_friends"
    /\ cursor <= Len(args.friend_ids)
    /\ \E friend \in FriendLookups(args.friend_ids[cursor]) :
          IF friend = None \/ friend[1].linked_user_id = None
          THEN LET r == ResolveParticipantContext(args.friend_ids[cursor], friend, None)
               IN  /\ participant_reports' = Append(participant_reports, r[1])
                   /\ participant_contexts' = participant_contexts \o r[2]
                   /\ calls' = [calls EXCEPT !.get_friend = @ + 1]
                   /\ cursor' = cursor + 1
                   /\ UNCHANGED <<pc, raised>>
          ELSE \E user \in UserLookups(args.friend_ids) :
               /\ calls' = [calls EXCEPT !.get_friend = @ + 1, !.get_user = @ + 1]
               /\ IF RaisesOnRecord(user)
                  THEN /\ pc' = "raised"
                       /\ raised' = Some(RecordError)
                       /\ UNCHANGED <<participant_reports, participant_contexts, cursor>>
                  ELSE LET r == ResolveParticipantContext(args.friend_ids[cursor], friend,
                                                         user)
                       IN  /\ participant_reports' = Append(participant_reports, r[1])
                           /\ participant_contexts' = participant_contexts \o r[2]
                           /\ cursor' = cursor + 1
                           /\ UNCHANGED <<pc, raised>>
    /\ UNCHANGED <<now_utc, args, intervals_per_participant, google_confidence_flags,
                   window_ranges_utc, busy_seen, overlap_slots, result>>
    /\ UNCHANGED side_vars

\* (now_utc + timedelta(days=target_days_ahead)).replace(hour=0, ...), and the end
DefaultStartUtc == Midnight(now_utc + args.target_days_ahead * MinutesPerDay)
DefaultEndUtc == DefaultStartUtc + args.window_days * MinutesPerDay

\* the result dict as first built, status "pending"
PendingResult ==
    [status |-> "pending",
     requestedFriendIds |-> args.friend_ids,
     searchWindow |-> [targetDaysAhead |-> args.target_days_ahead,
                       windowDays |-> args.window_days,
                       durationMinutes |-> args.duration_minutes,
                       startsAt |-> FormatDatetime(DefaultStartUtc),
                       endsAt |-> FormatDatetime(DefaultEndUtc)],
     participants |-> participant_reports,
     recommendation |-> None,
     alternatives |-> <<>>,
     notes |-> <<>>]

\* the result built without the needs_setup return: matching goes on with the
\* contexts that resolved
BuildResult_NoSetupReturn ==
    /\ pc = "resolve_friends"
    /\ cursor > Len(args.friend_ids)
    /\ result' = Some(PendingResult)
    /\ pc' = "compute"
    /\ cursor' = 1
    /\ UNCHANGED <<now_utc, args, participant_reports, participant_contexts,
                   intervals_per_participant, google_confidence_flags,
                   window_ranges_utc, busy_seen, overlap_slots, raised, calls>>
    /\ UNCHANGED side_vars

\* after the loop: build the result, and return needs_setup when a context is missing
BuildResult ==
    /\ pc = "resolve_friends"
    /\ cursor > Len(args.friend_ids)
    /\ IF Len(participant_contexts) # Len(args.friend_ids) + 1
       THEN /\ result' = Some([PendingResult EXCEPT
                    !.status = "needs_setup",
                    !.notes = <<"You and your selected friend must both have weekly availability configured in Meaningful.">>])
            /\ pc' = "returned"
       ELSE /\ result' = Some(PendingResult)
            /\ pc' = "compute"
    /\ cursor' = 1
    /\ UNCHANGED <<now_utc, args, participant_reports, participant_contexts,
                   intervals_per_participant, google_confidence_flags,
                   window_ranges_utc, busy_seen, overlap_slots, raised, calls>>
    /\ UNCHANGED side_vars

\* the search window anchored at the UTC midnight, not at the context's own
LocalWindow_UtcMidnight(context) ==
    LET local_start == Midnight(now_utc + args.target_days_ahead * MinutesPerDay)
    IN  <<local_start, local_start + args.window_days * MinutesPerDay>>

\* the search window of a context, in its own zone: <<local_start, local_end>>
LocalWindow(context) ==
    LET local_start == Midnight(ToLocal(now_utc, context.timezone_name)
                                + args.target_days_ahead * MinutesPerDay)
    IN  <<local_start, local_start + args.window_days * MinutesPerDay>>

\* [(start.astimezone(utc), end.astimezone(utc)) for start, end in slots]
RECURSIVE SlotsToUtc(_, _)
SlotsToUtc(slots, tz) ==
    IF slots = <<>> THEN <<>>
    ELSE <<(<<ToUtc(Head(slots)[1], tz), ToUtc(Head(slots)[2], tz)>>)>>
         \o SlotsToUtc(Tail(slots), tz)

\* _compute_free_windows_for_participant when the source answers busy_periods
\* (used only if the context has tokens): the filtered slots
ComputeFreeWindows(context, local_window_start, local_window_end, busy_periods) ==
    LET slots     == ExpandSlotsWithinWindow(context.availability,
                                             local_window_start, local_window_end)
        slots_utc == SlotsToUtc(slots, context.timezone_name)
    IN  IF context.google_tokens
        THEN PositiveOnly(SubtractBusyWindows(slots_utc, ParseBusyWindows(busy_periods)))
        ELSE PositiveOnly(slots_utc)

\* the search window of context k in UTC
WindowRangeUtc(context) ==
    <<ToUtc(LocalWindow(context)[1], context.timezone_name),
      ToUtc(LocalWindow(context)[2], context.timezone_name)>>

\* update_user that lets the failure of update_item through
UpdateUser_Unguarded(written) == [raised |-> ~written, value |-> TRUE]

\* DynamoDBService.update_user: update_item inside try/except, the outcome as bool
UpdateUser(written) == [raised |-> FALSE, value |-> written]

\* the "for context in participant_contexts" loop, the source answering answers[k]
\* to the context k that has tokens: the lists it builds and the calls it makes.
\* The loop ends at the first context for which the source or update_user
\* raises (stopped_at).
ComputeLoop(answers) ==
    LET n       == Len(participant_contexts)
        asked(k)   == participant_contexts[k].google_tokens
        update_raises(k) == /\ asked(k) /\ ~answers[k].error /\ answers[k].refreshed
                            /\ UpdateUser(answers[k].written).raised
        failing == {k \in 1..n : (asked(k) /\ answers[k].error) \/ update_raises(k)}
        stopped_at == IF failing = {} THEN 0
                      ELSE CHOOSE k \in failing : \A j \in failing : k <= j
        done    == IF failing = {} THEN n ELSE stopped_at - 1
        refreshing(k) == asked(k) /\ answers[k].refreshed
        busy(k) == BusyPeriods(answers[k].busy, WindowRangeUtc(participant_contexts[k])[1])
    IN  [error |-> failing # {},
         message |-> IF failing # {} /\ update_raises(stopped_at)
                     THEN "update_item failed" ELSE "Google Calendar API error",
         window_ranges_utc |->
            [k \in 1..(IF failing = {} THEN n ELSE stopped_at) |->
                WindowRangeUtc(participant_contexts[k])],
         intervals_per_participant |->
            [k \in 1..done |->
                ComputeFreeWindows(participant_contexts[k],
                                   LocalWindow(participant_contexts[k])[1],
                                   LocalWindow(participant_contexts[k])[2], busy(k))],
         google_confidence_flags |-> [k \in 1..done |-> asked(k)],
         busy_seen |-> [k \in 1..done |-> busy(k)],
         calls |-> [calls EXCEPT
            !.get_busy_periods =
                @ + Cardinality({k \in 1..(IF failing = {} THEN n ELSE stopped_at) : asked(k)}),
            !.update_user = @ + Cardinality({k \in 1..done : refreshing(k)})
                              + (IF failing # {} /\ update_raises(stopped_at) THEN 1 ELSE 0)]]

\* min(window_ranges_utc, key=pair[0])[0] and max(window_ranges_utc, key=pair[1])[1]
EarliestStart(ranges) ==
    CHOOSE v \in {ranges[k][1] : k \in 1..Len(ranges)} :
        \A k \in 1..Len(ranges) : v <= ranges[k][1]

LatestEnd(ranges) ==
    CHOOSE v \in {ranges[k][2] : k \in 1..Len(ranges)} :
        \A k \in 1..Len(ranges) : v >= ranges[k][2]

\* {"start": ..., "end": ...} of a slot
SlotDict(slot) == [start |-> FormatDatetime(slot[1]), end |-> FormatDatetime(slot[2])]

\* [SlotDict(slot) for slot in slots]
RECURSIVE SlotDicts(_)
SlotDicts(slots) ==
    IF slots = <<>> THEN <<>> ELSE <<SlotDict(Head(slots))>> \o SlotDicts(Tail(slots))

\* the slots sliced from the common windows, before the final truncation
SlicedSlots(intervals) ==
    SliceWindows(<<>>, IntersectMultiple(intervals, args.duration_minutes),
                 args.duration_minutes, args.max_suggestions)

\* the result returned after the loop: search window, then the sliced slots cut to
\* max_suggestions, the first of them the recommendation
MatchResult(loop, sliced) ==
    LET windowed == [result[1] EXCEPT
            !.searchWindow.startsAt =
                IF loop.window_ranges_utc = <<>> THEN @
                ELSE FormatDatetime(EarliestStart(loop.window_ranges_utc)),
            !.searchWindow.endsAt =
                IF loop.window_ranges_utc = <<>> THEN @
                ELSE FormatDatetime(LatestEnd(loop.window_ranges_utc))]
    IN  IF Truncate(sliced, args.max_suggestions) = <<>>
        THEN [windowed EXCEPT
                !.status = "no_overlap",
                !.notes = <<"No overlapping availability was found in the requested window. Try a wider window or ask friends to update their schedules.">>]
        ELSE [windowed EXCEPT
                !.status = "matched",
                !.recommendation =
                    Some([start |-> FormatDatetime(sliced[1][1]),
                          end |-> FormatDatetime(sliced[1][2]),
                          confidence |-> ResolveConfidence(loop.google_confidence_flags)]),
                !.alternatives = SlotDicts(Tail(Truncate(sliced, args.max_suggestions)))]

\* the rest of the call once every participant has a context: free windows of
\* each participant, then the match; a raise of the source ends the call
ComputeAndMatch ==
    /\ pc = "compute"
    /\ \E answers \in [1..Len(participant_contexts) -> BusyAnswers \cup {NotAsked}] :
          /\ \A k \in 1..Len(participant_contexts) :
                IF participant_contexts[k].google_tokens
                THEN answers[k] \in BusyAnswers
                ELSE answers[k] = NotAsked
          /\ \E loop \in {ComputeLoop(answers)} :
                /\ calls' = loop.calls
                /\ reads' = [k \in 1..Len(participant_contexts) |->
                                [refreshed |-> answers[k].refreshed,
                                 written |-> answers[k].written]]
                /\ IF loop.error
                   THEN \* the exception leaves the call: its locals are gone
                        /\ raised' = Some([type |-> "RuntimeError",
                                           message |-> loop.message])
                        /\ pc' = "raised"
                        /\ result' = None
                        /\ UNCHANGED <<intervals_per_participant, google_confidence_flags,
                                       window_ranges_utc, busy_seen, overlap_slots>>
                   ELSE \E sliced \in {SlicedSlots(loop.intervals_per_participant)} :
                        /\ intervals_per_participant' = loop.intervals_per_participant
                        /\ google_confidence_flags' = loop.google_confidence_flags
                        /\ window_ranges_utc' = loop.window_ranges_utc
                        /\ busy_seen' = loop.busy_seen
                        /\ overlap_slots' = sliced
                        /\ result' = Some(MatchResult(loop, sliced))
                        /\ pc' = "returned"
                        /\ UNCHANGED raised
    /\ UNCHANGED <<now_utc, args, participant_reports, participant_contexts, cursor>>
    /\ UNCHANGED <<stored, friends, results, payload, response, booking, calendar,
                   interval_sets, overlaps, table_vars>>

Next ==
    \/ Call
    \/ Validate
    \/ ResolveOwner
    \/ ResolveFriend
    \/ BuildResult
    \/ ComputeAndMatch

Spec == Init /\ [][Next]_vars

(***************************************************************************)
(* compute_available_now: _find_current_slot, _find_next_slot              *)
(***************************************************************************)
\* search_days of _find_next_slot
SearchDays == 14

\* timedelta(hours=4): how far ahead of now the busy source is asked
LookAheadMinutes == 240

\* the "for slot in slots" loop of _find_current_slot
RECURSIVE FirstCovering(_, _)
FirstCovering(slots, now_local) ==
    IF slots = <<>> THEN None
    ELSE LET r == SlotRange(now_local, Head(slots))
         IN  IF r[1] <= now_local /\ now_local < r[2] THEN Some(r)
             ELSE FirstCovering(Tail(slots), now_local)

\* _find_current_slot(availability, now_local): Some(<<start, end>>) or None
FindCurrentSlot(weekly, now_local) == FirstCovering(weekly[DayKey(now_local)], now_local)

\* the "for slot in slots" loop of _find_next_slot for one candidate day
RECURSIVE FirstStartAfter(_, _, _)
FirstStartAfter(slots, candidate_day, comparison_start) ==
    IF slots = <<>> THEN None
    ELSE IF SlotRange(candidate_day, Head(slots))[1] > comparison_start
         THEN Some(SlotRange(candidate_day, Head(slots))[1])
         ELSE FirstStartAfter(Tail(slots), candidate_day, comparison_start)

\* the "for offset in range(search_days + 1)" loop of _find_next_slot
RECURSIVE NextSlotFrom(_, _, _)
NextSlotFrom(weekly, comparison_start, offset) ==
    IF offset > SearchDays THEN None
    ELSE LET candidate_day == Midnight(comparison_start + offset * MinutesPerDay)
             found == FirstStartAfter(weekly[DayKey(candidate_day)], candidate_day,
                                      comparison_start)
         IN  IF found # None THEN found
             ELSE NextSlotFrom(weekly, comparison_start, offset + 1)

\* _find_next_slot(availability, now_local, tz, earliest_after): Some(start) or None;
\* earliest_after is None or Some(instant in UTC)
FindNextSlot(weekly, now_local, tz, earliest_after) ==
    NextSlotFrom(weekly,
                 IF earliest_after # None THEN ToLocal(earliest_after[1], tz) ELSE now_local,
                 0)

(***************************************************************************)
(* compute_available_now: inputs                                           *)
(***************************************************************************)
\* how many friends list_friends returns at most
MaxFriends == 2

\* the instants of a call: Monday 08:00, 12:45 and 23:30 UTC
NowInstants == {8 * 60, 12 * 60 + 45, 23 * 60 + 30}

\* the day lists of the stored templates; the second is stored out of order
NowTemplates ==
    {<<>>, <<Slot(9, 0, 17, 0)>>, <<Slot(12, 0, 13, 0)>>, <<Slot(12, 30, 14, 0), Slot(9, 0, 17, 0)>>}

\* one item of friends_table.query: a contact, or a linked app user
FriendItem(friend_id, linked) ==
    IF linked THEN [friend_id |-> friend_id, friend_type |-> "app_user",
                    linked_user_id |-> Some(friend_id)]
    ELSE [friend_id |-> friend_id, friend_type |-> "contact", linked_user_id |-> None]

\* the friend ids of the listed items, newest first
ListedIds == <<"f1", "f2", "f3", "f4">>

\* the lists list_friends can return
FriendLists ==
    UNION {{[i \in 1..n |-> FriendItem(ListedIds[i], l[i])] : l \in [1..n -> BOOLEAN]} :
            n \in 0..MaxFriends}

\* users_table.get_item for a linked friend
NowUserLookups ==
    {None, Some([availability |-> None, google_tokens |-> FALSE])}
    \cup (IF stored = "any"
          THEN {Some([availability |-> Some(a), google_tokens |-> FALSE]) :
                  a \in UncheckedRecords}
          ELSE {Some([availability |-> Some([timezone |-> tz, weekly |-> WeeklyOf(l)]),
                      google_tokens |-> g]) :
                  tz \in Zones, l \in NowTemplates, g \in BOOLEAN})

\* commitments the free/busy source can hold, as minutes relative to now: one
\* around now, one that starts in ten minutes, one that ended at this minute
NowBusyOffsets == {<<-30, 30>>, <<10, 20>>, <<-30, 0>>}

\* the source lists its commitments in chronological order
SourceCalendars ==
    {c \in SeqsUpTo(NowBusyOffsets, MaxBusy) :
        \A i \in 1..Len(c), j \in 1..Len(c) :
            i < j => (c[i][1] < c[j][1] \/ (c[i][1] = c[j][1] /\ c[i][2] < c[j][2]))}

\* the source is unreachable, or holds a calendar; refreshed credentials come
\* with the answer when the stored ones had expired (always with the empty
\* calendar, sometimes with the commitment around now), and
\* users_table.update_item then takes the write or fails (written)
SourceStates ==
    {[error |-> TRUE, commitments |-> <<>>, refreshed |-> FALSE, written |-> TRUE]}
    \cup {a \in [error : {FALSE}, commitments : SourceCalendars,
                  refreshed : BOOLEAN, written : BOOLEAN] :
             /\ (a.commitments = <<>>) => a.refreshed
             /\ a.refreshed => a.commitments \in {<<>>, <<(<<-30, 30>>)>>}
             /\ ~a.refreshed => a.written}

\* the state of a source that is not asked
SourceUnasked ==
    [error |-> FALSE, commitments |-> <<>>, refreshed |-> FALSE, written |-> TRUE]

\* freebusy().query: the commitments that meet [time_min, time_max), in order
RECURSIVE FreeBusyQuery(_, _, _, _)
FreeBusyQuery(commitments, now, time_min, time_max) ==
    IF commitments = <<>> THEN <<>>
    ELSE LET start == now + Head(commitments)[1]
             end   == now + Head(commitments)[2]
             rest  == FreeBusyQuery(Tail(commitments), now, time_min, time_max)
         IN  IF start < time_max /\ end > time_min
             THEN <<[start |-> FormatDatetime(start), end |-> FormatDatetime(end)]>> \o rest
             ELSE rest

(***************************************************************************)
(* compute_available_now: _evaluate_friend                                 *)
(***************************************************************************)
\* AvailabilityEvaluation with its defaults; datetimes are kept as instants
Evaluation(friend) ==
    [friend |-> friend.friend_id, status |-> "unknown", reason |-> None,
     available_until |-> None, next_available_at |-> None, busy_until |-> None,
     timezone |-> None, confidence |-> "low"]

\* the instant of a local wall-clock value, when there is one
InstantOf(local, tz) == IF local = None THEN None ELSE Some(ToUtc(local[1], tz))

\* time_min and time_max of the free/busy query for a friend inside a slot
QueryWindow(now, end_local, tz) ==
    <<now - 1, Min2(ToUtc(end_local, tz), now + LookAheadMinutes)>>

\* the return of the "if not isinstance(tokens, Dict)" branch, confidence raised
Disconnected_HighConfidence(base, tz, end_local) ==
    [base EXCEPT !.reason = Some("google_calendar_disconnected"), !.timezone = Some(tz),
                 !.available_until = Some(ToUtc(end_local, tz)), !.confidence = "high"]

\* the return of the "if not isinstance(tokens, Dict)" branch
Disconnected(base, tz, end_local) ==
    [base EXCEPT !.reason = Some("google_calendar_disconnected"), !.timezone = Some(tz),
                 !.available_until = Some(ToUtc(end_local, tz)), !.confidence = "low"]

\* the return of the "except Exception" branch, without available_until
CheckFailed_NoAvailableUntil(base, tz, end_local) ==
    [base EXCEPT !.reason = Some("calendar_check_failed"), !.timezone = Some(tz),
                 !.confidence = "low"]

\* the return of the "except Exception" branch around get_busy_periods
CheckFailed(base, tz, end_local) ==
    [base EXCEPT !.reason = Some("calendar_check_failed"), !.timezone = Some(tz),
                 !.available_until = Some(ToUtc(end_local, tz)), !.confidence = "low"]

\* _evaluate_friend from the user record on; source is the state of the busy source
EvaluateLinked(friend, user, source, now) ==
    LET base == Evaluation(friend)
    IN  IF user = None THEN [base EXCEPT !.reason = Some("user_not_found")]
        ELSE IF user[1].availability = None
        THEN [base EXCEPT !.reason = Some("no_availability")]
        ELSE
        LET weekly == user[1].availability[1].weekly
            tz == ResolveZone(user[1].availability[1].timezone)
            now_local == ToLocal(now, tz)
            current_slot == FindCurrentSlot(weekly, now_local)
        IN  IF current_slot = None
            THEN [base EXCEPT !.status = "busy", !.reason = Some("outside_availability"),
                              !.timezone = Some(tz),
                              !.next_available_at =
                                  InstantOf(FindNextSlot(weekly, now_local, tz, None), tz)]
            ELSE
            LET end_local == current_slot[1][2]
                window == QueryWindow(now, end_local, tz)
                busy_periods == FreeBusyQuery(source.commitments, now, window[1], window[2])
            IN  IF ~user[1].google_tokens
                THEN Disconnected(base, tz, end_local)
                ELSE IF source.error
                THEN CheckFailed(base, tz, end_local)
                ELSE IF busy_periods # <<>>
                THEN LET busy_end == ParseCalendarDatetime(busy_periods[1].end)
                     IN  [base EXCEPT !.status = "busy", !.reason = Some("calendar_busy"),
                                      !.timezone = Some(tz), !.busy_until = busy_end,
                                      !.next_available_at =
                                          InstantOf(FindNextSlot(weekly, now_local, tz,
                                                                 busy_end), tz),
                                      !.confidence = "high"]
                ELSE [base EXCEPT !.status = "available", !.timezone = Some(tz),
                                  !.available_until = Some(ToUtc(end_local, tz)),
                                  !.confidence = "high"]

\* _evaluate_friend
EvaluateFriendRecord(friend, user, source, now) ==
    IF friend.friend_type # "app_user" \/ friend.linked_user_id = None
    THEN [Evaluation(friend) EXCEPT !.reason = Some("no_linked_meaningful_account")]
    ELSE EvaluateLinked(friend, user, source, now)

\* whether _evaluate_friend reaches get_busy_periods for this user record
AsksSource(user, now) ==
    /\ user # None
    /\ user[1].availability # None
    /\ user[1].google_tokens
    /\ LET tz == ResolveZone(user[1].availability[1].timezone)
       IN  FindCurrentSlot(user[1].availability[1].weekly, ToLocal(now, tz)) # None

\* an optional datetime of the payload
FormatOptional(value) == IF value = None THEN None ELSE Some(FormatDatetime(value[1]))

\* _serialize_evaluation; a key the payload lacks is None
SerializeEvaluation(evaluation) ==
    [friend |-> evaluation.friend, status |-> evaluation.status,
     confidence |-> evaluation.confidence, reason |-> evaluation.reason,
     timezone |-> evaluation.timezone,
     availableUntil |-> FormatOptional(evaluation.available_until),
     nextAvailableAt |-> FormatOptional(evaluation.next_available_at),
     busyUntil |-> FormatOptional(evaluation.busy_until)]

\* a bucket that takes every evaluation, whatever its status
Bucket_Unfiltered(evaluations, statuses) ==
    [i \in 1..Len(evaluations) |-> SerializeEvaluation(evaluations[i])]

\* the three "for evaluation in results" buckets
RECURSIVE Bucket(_, _)
Bucket(evaluations, statuses) ==
    IF evaluations = <<>> THEN <<>>
    ELSE IF Head(evaluations).status \in statuses
         THEN <<SerializeEvaluation(Head(evaluations))>> \o Bucket(Tail(evaluations), statuses)
         ELSE Bucket(Tail(evaluations), statuses)

(***************************************************************************)
(* compute_available_now: the call                                         *)
(***************************************************************************)
\* the variables compute_available_now leaves alone
now_frame ==
    <<now_utc, args, match_vars, stored, payload, response, booking, calendar,
      interval_sets, overlaps, table_vars>>

NowInit ==
    /\ pc = "now_idle"
    /\ now_utc \in NowInstants
    /\ ServiceIdle
    /\ stored = "validated"
    /\ SideIdle /\ TablesIdle

\* now_utc is read and list_friends answers
NowCall ==
    /\ pc = "now_idle"
    /\ friends' \in FriendLists
    /\ calls' = [calls EXCEPT !.list_friends = @ + 1]
    /\ cursor' = 1
    /\ pc' = "now_evaluate"
    /\ UNCHANGED <<results, reads, result, raised>>
    /\ UNCHANGED now_frame

\* one turn of "for friend in friends": _evaluate_friend and results.append
EvaluateFriend ==
    /\ pc = "now_evaluate"
    /\ cursor <= Len(friends)
    /\ LET friend == friends[cursor]
       IN  IF friend.friend_type # "app_user" \/ friend.linked_user_id = None
           THEN /\ results' = Append(results,
                                     EvaluateFriendRecord(friend, None, SourceUnasked, now_utc))
                /\ reads' = Append(reads, [user |-> None, source |-> SourceUnasked,
                                           asked |-> FALSE])
                /\ cursor' = cursor + 1
                /\ UNCHANGED <<pc, raised, calls>>
           ELSE \E user \in NowUserLookups :
                  IF RaisesOnRecord(user)
                  THEN /\ pc' = "now_raised"
                       /\ raised' = Some(RecordError)
                       /\ reads' = Append(reads, [user |-> user, source |-> SourceUnasked,
                                                  asked |-> FALSE])
                       /\ calls' = [calls EXCEPT !.get_user = @ + 1]
                       /\ UNCHANGED <<results, cursor>>
                  ELSE \E source \in (IF AsksSource(user, now_utc) THEN SourceStates
                                      ELSE {SourceUnasked}) :
                         /\ reads' = Append(reads, [user |-> user, source |-> source,
                                                    asked |-> AsksSource(user, now_utc)])
                         /\ calls' = [calls EXCEPT
                                !.get_user = @ + 1,
                                !.get_busy_periods =
                                    IF AsksSource(user, now_utc) THEN @ + 1 ELSE @,
                                !.update_user = IF source.refreshed THEN @ + 1 ELSE @]
                         /\ IF source.refreshed /\ UpdateUser(source.written).raised
                            THEN \* update_user is called outside the try block
                                 /\ pc' = "now_raised"
                                 /\ raised' = Some([type |-> "RuntimeError",
                                                    message |-> "update_item failed"])
                                 /\ UNCHANGED <<results, cursor>>
                            ELSE /\ results' = Append(results,
                                        EvaluateFriendRecord(friend, user, source, now_utc))
                                 /\ cursor' = cursor + 1
                                 /\ UNCHANGED <<pc, raised>>
    /\ UNCHANGED <<friends, result>>
    /\ UNCHANGED now_frame

\* the buckets are filled and the dict is returned
NowReturn ==
    /\ pc = "now_evaluate"
    /\ cursor > Len(friends)
    /\ result' = Some([available |-> Bucket(results, {"available"}),
                       busy |-> Bucket(results, {"busy"}),
                       unknown |-> Bucket(results, {"unknown"}),
                       generatedAt |-> FormatDatetime(now_utc)])
    /\ pc' = "now_returned"
    /\ UNCHANGED <<friends, results, reads, cursor, raised, calls>>
    /\ UNCHANGED now_frame

NowNext ==
    \/ NowCall
    \/ EvaluateFriend
    \/ NowReturn

SpecNow == NowInit /\ [][NowNext]_vars

(***************************************************************************)
(* Both operations over a users table written by other means               *)
(***************************************************************************)
StoredInit ==
    /\ pc \in {"idle", "now_idle"}
    /\ now_utc \in NowInstants
    /\ ServiceIdle
    /\ stored = "any"
    /\ SideIdle /\ TablesIdle

StoredNext ==
    \/ Next
    \/ NowNext

SpecStored == StoredInit /\ [][StoredNext]_vars

(***************************************************************************)
(* handlers/friends.py: _handle_match_slot                                 *)
(***************************************************************************)
\* the default of max_suggestions, which the handler never passes
DefaultMaxSuggestions == 3

\* the defaults of payload.get("durationMinutes" / "daysFromNow" / "windowDays")
DefaultDuration == 60
DefaultDaysFromNow == 14
DefaultWindowDays == 7

\* a JSON value of the body: a number, or a text that is not a number
Num(n) == Some([kind |-> "number", number |-> n])
Text == Some([kind |-> "text", number |-> 0])

\* payload.get("friendIds"): not a list (None), or a list whose entries are
\* friend ids or blank strings
RawFriendIds == {None, Some(<<>>), Some(<<"f1">>), Some(<<"f1", "">>), Some(<<"f2", "f1">>)}

\* the request bodies: unparseable, or a dict with the three numbers given, left
\* out, or with a duration that is not a number
MatchPayloads ==
    {[parsed |-> FALSE, friendIds |-> None, durationMinutes |-> None,
      daysFromNow |-> None, windowDays |-> None]}
    \cup {[parsed |-> TRUE, friendIds |-> f, durationMinutes |-> n[1],
           daysFromNow |-> n[2], windowDays |-> n[3]] :
            f \in RawFriendIds,
            n \in {<<Num(30), Num(0), Num(1)>>, <<None, None, None>>,
                   <<Text, Num(0), Num(1)>>}}

\* the "for entry in raw_friend_ids" loop: the stripped non-blank entries
RECURSIVE StripFriendIds(_)
StripFriendIds(raw) ==
    IF raw = <<>> THEN <<>>
    ELSE IF Head(raw) # "" THEN <<Head(raw)>> \o StripFriendIds(Tail(raw))
         ELSE StripFriendIds(Tail(raw))

\* int(payload.get(key, default)): Some(number), or None when int() raises
IntOf(value, default) ==
    IF value = None THEN Some(default)
    ELSE IF value[1].kind = "number" THEN Some(value[1].number)
         ELSE None

\* create_error_response(status, message)
ErrorResponse(status, message) == [status |-> status, error |-> Some(message), body |-> None]

\* the checks of _handle_match_slot that precede the service call: the error
\* response they return, or None
MatchSlotRejection(p) ==
    IF ~p.parsed THEN Some(ErrorResponse(400, "Invalid JSON payload"))
    ELSE IF p.friendIds = None
    THEN Some(ErrorResponse(400,
            "friendIds must be an array containing at least one friend ID"))
    ELSE IF Len(StripFriendIds(p.friendIds[1])) # 1
    THEN Some(ErrorResponse(400, "friendIds must contain exactly one valid friend ID"))
    ELSE IF \/ IntOf(p.durationMinutes, DefaultDuration) = None
            \/ IntOf(p.daysFromNow, DefaultDaysFromNow) = None
            \/ IntOf(p.windowDays, DefaultWindowDays) = None
    THEN Some(ErrorResponse(400,
            "durationMinutes, daysFromNow, and windowDays must be numbers"))
    ELSE None

\* the variables _handle_match_slot leaves alone
handler_frame ==
    <<now_utc, cursor, result, raised, calls, match_vars, stored, friends, results,
      reads, booking, calendar, interval_sets, overlaps, table_vars>>

HandlerInit ==
    /\ pc = "http_idle"
    /\ now_utc \in NowChoices
    /\ ServiceIdle
    /\ stored = "validated"
    /\ SideIdle /\ TablesIdle

\* the body is parsed and checked; recommend_meeting_slot is entered
HandleMatchSlot ==
    /\ pc = "http_idle"
    /\ \E p \in MatchPayloads :
          /\ payload' = Some(p)
          /\ IF MatchSlotRejection(p) # None
             THEN /\ response' = MatchSlotRejection(p)
                  /\ pc' = "responded"
                  /\ UNCHANGED args
             ELSE /\ args' = [friend_ids |-> StripFriendIds(p.friendIds[1]),
                              target_days_ahead |-> IntOf(p.daysFromNow,
                                                          DefaultDaysFromNow)[1],
                              window_days |-> IntOf(p.windowDays, DefaultWindowDays)[1],
                              duration_minutes |-> IntOf(p.durationMinutes,
                                                         DefaultDuration)[1],
                              max_suggestions |-> DefaultMaxSuggestions]
                  /\ pc' = "validate"
                  /\ UNCHANGED response
    /\ UNCHANGED handler_frame

\* recommend_meeting_slot has returned or raised: the handler answers
MatchSlotRespond ==
    /\ payload # None
    /\ pc \in {"returned", "raised"}
    /\ response' = IF pc = "returned" THEN Some([status |-> 200, error |-> None, body |-> result])
                   ELSE IF raised[1].type = "ValueError"
                   THEN Some(ErrorResponse(400, raised[1].message))
                   ELSE Some(ErrorResponse(500, "Failed to compute a matching slot"))
    /\ pc' = "responded"
    /\ UNCHANGED <<args, payload>>
    /\ UNCHANGED handler_frame

HandlerNext ==
    \/ HandleMatchSlot
    \/ Validate
    \/ ResolveOwner
    \/ ResolveFriend
    \/ BuildResult
    \/ ComputeAndMatch
    \/ MatchSlotRespond

SpecHandler == HandlerInit /\ [][HandlerNext]_vars

(***************************************************************************)
(* schedule_meeting_slot and the filter of handle_get_events               *)
(* Texts are kept as sequences of words; "x in text" is a search for a run *)
(* of words.                                                               *)
(***************************************************************************)
\* "Planned via Meaningful." and the text the filter looks for
DefaultDescription == <<"Planned", "via", "Meaningful", ".">>
DescriptionMark == <<"Planned", "via", "Meaningful">>

\* part in text
Contains(text, part) ==
    \E i \in 0..(Len(text) - Len(part)) : SubSeq(text, i + 1, i + Len(part)) = part

\* start and end as given: 10:00-11:00, 11:00-10:00, 10:00-10:00, and a start
\* that is not a timestamp
BookingTimes ==
    {<<FormatDatetime(600), FormatDatetime(660)>>, <<FormatDatetime(660), FormatDatetime(600)>>,
     <<FormatDatetime(600), FormatDatetime(600)>>, <<<<>>, FormatDatetime(660)>>}

\* title and notes as given: left out, empty, or a text
BookingTexts == {None, Some(<<>>), Some(<<"See", "you">>)}

\* users_table.get_item for the owner; google_tokens is missing ("none"), not a
\* dict, a dict without refresh_token, or complete
OwnerRecords ==
    {None} \cup {Some([google_tokens |-> t, email |-> e]) :
                    t \in {"none", "not_dict", "no_refresh", "complete"},
                    e \in {None, Some("owner@example.com")}}

\* users_table.get_item for the friend: the email is missing, blank or present
FriendUserRecords ==
    {None} \cup {Some([email |-> e, name |-> n]) :
                    e \in {None, Some(""), Some("friend@example.com")},
                    n \in {None, Some("Ada")}}

\* events made by other means: with neither mark, with the mark in the
\* description only, with the private mark but no attendee, with a near miss
ForeignEvents ==
    {[id |-> "ext1", summary |-> <<"Dentist">>, description |-> None,
      attendees |-> <<"a@example.com">>, meaningful |-> None],
     [id |-> "ext2", summary |-> <<"Walk">>,
      description |-> Some(<<"Was", "Planned", "via", "Meaningful", "once">>),
      attendees |-> <<"a@example.com">>, meaningful |-> None],
     [id |-> "ext3", summary |-> <<"Focus">>, description |-> None,
      attendees |-> <<>>, meaningful |-> Some("true")],
     [id |-> "ext4", summary |-> <<"Review">>,
      description |-> Some(<<"Planned", "via", "Meaning">>),
      attendees |-> <<"a@example.com">>, meaningful |-> Some("false")]}

\* the error of the start/end checks, or None
TimesError(start, end) ==
    IF ParseCalendarDatetime(start) = None \/ ParseCalendarDatetime(end) = None
    THEN Some("start and end must be ISO8601 timestamps")
    ELSE IF ParseCalendarDatetime(end)[1] <= ParseCalendarDatetime(start)[1]
    THEN Some("end must be after start")
    ELSE None

\* the owner checks without the refresh_token check
OwnerError_NoRefreshCheck(owner) ==
    IF owner = None THEN Some("Unable to load your profile")
    ELSE IF owner[1].google_tokens = "none" THEN Some("Google Calendar is not connected")
    ELSE IF owner[1].google_tokens = "not_dict"
    THEN Some("Google Calendar tokens are in an unexpected format")
    ELSE None

\* the error of the owner checks, or None
OwnerError(owner) ==
    IF owner = None THEN Some("Unable to load your profile")
    ELSE IF owner[1].google_tokens = "none" THEN Some("Google Calendar is not connected")
    ELSE IF owner[1].google_tokens = "not_dict"
    THEN Some("Google Calendar tokens are in an unexpected format")
    ELSE IF owner[1].google_tokens = "no_refresh"
    THEN Some("Google Calendar connection is incomplete (missing refresh token)")
    ELSE None

\* the error of the friend checks, or None; friend_user is read for a linked friend
FriendError(friend, friend_user) ==
    IF friend = None THEN Some("Friend relationship not found")
    ELSE IF friend[1].friend_type # "app_user" \/ friend[1].linked_user_id = None
    THEN Some("This friend must have a Meaningful account connected")
    ELSE IF friend_user = None THEN Some("Unable to load your friend's profile")
    ELSE IF friend_user[1].email = None \/ friend_user[1].email[1] = ""
    THEN Some("Friend does not have a valid email on file")
    ELSE None

\* event_body with description alone carrying the origin, no private property
EventBody_Untagged(b, owner, friend_user) ==
    [summary |-> IF b.title = None \/ b.title[1] = <<>>
                 THEN <<"Catch", "up", "with",
                        IF friend_user.name = None THEN "Friend" ELSE friend_user.name[1]>>
                 ELSE b.title[1],
     description |-> Some(IF b.notes = None \/ b.notes[1] = <<>> THEN DefaultDescription
                          ELSE b.notes[1]),
     start |-> b.start, end |-> b.end,
     attendees |-> (IF owner.email = None THEN <<>> ELSE <<owner.email[1]>>)
                   \o <<friend_user.email[1]>>,
     meaningful |-> None]

\* event_body as schedule_meeting_slot builds it
EventBody(b, owner, friend_user) ==
    [summary |-> IF b.title = None \/ b.title[1] = <<>>
                 THEN <<"Catch", "up", "with",
                        IF friend_user.name = None THEN "Friend" ELSE friend_user.name[1]>>
                 ELSE b.title[1],
     description |-> Some(IF b.notes = None \/ b.notes[1] = <<>> THEN DefaultDescription
                          ELSE b.notes[1]),
     start |-> b.start, end |-> b.end,
     attendees |-> (IF owner.email = None THEN <<>> ELSE <<owner.email[1]>>)
                   \o <<friend_user.email[1]>>,
     meaningful |-> Some("true")]

\* the event the provider stores and returns for a body
StoredEvent(body) ==
    [id |-> "created", summary |-> body.summary, description |-> body.description,
     attendees |-> body.attendees, meaningful |-> body.meaningful]

\* is_meaningful_event and the attendees check of the "for event in events" loop
PassesFilter(event) ==
    /\ \/ event.meaningful = Some("true")
       \/ Contains(IF event.description = None THEN <<>> ELSE event.description[1],
                   DescriptionMark)
    /\ event.attendees # <<>>

\* formatted_events: the events that pass, in order
RECURSIVE FormattedEvents(_)
FormattedEvents(events) ==
    IF events = <<>> THEN <<>>
    ELSE IF PassesFilter(Head(events))
         THEN <<[id |-> Head(events).id, summary |-> Head(events).summary,
                 attendees |-> Head(events).attendees]>> \o FormattedEvents(Tail(events))
         ELSE FormattedEvents(Tail(events))

\* what a booking has not read yet
Unread == <<None, None>>

BookInit ==
    /\ pc = "book_idle"
    /\ now_utc \in NowChoices
    /\ ServiceIdle
    /\ stored = "validated"
    /\ friends = <<>> /\ results = <<>> /\ reads = <<>>
    /\ payload = None /\ response = None /\ booking = None
    /\ calendar \in SeqsUpTo(ForeignEvents, 1)
    /\ interval_sets = <<>> /\ overlaps = <<>>
    /\ TablesIdle

\* schedule_meeting_slot is called; start and end are parsed and compared
ScheduleCall ==
    /\ pc = "book_idle"
    /\ \E t \in BookingTimes, title \in BookingTexts, notes \in BookingTexts :
          /\ booking' = Some([start |-> t[1], end |-> t[2], title |-> title, notes |-> notes,
                              owner |-> Unread, friend |-> Unread, friend_user |-> Unread])
          /\ IF TimesError(t[1], t[2]) # None
             THEN /\ pc' = "book_raised"
                  /\ raised' = Some([type |-> "ValueError",
                                     message |-> TimesError(t[1], t[2])[1]])
             ELSE /\ pc' = "book_owner"
                  /\ UNCHANGED raised
    /\ UNCHANGED <<now_utc, args, cursor, result, calls, match_vars, stored, friends,
                   results, reads, payload, response, calendar, interval_sets, overlaps, table_vars>>

\* get_user(user_id) and the checks of the owner's tokens
LoadOwner ==
    /\ pc = "book_owner"
    /\ \E owner \in OwnerRecords :
          /\ booking' = Some([booking[1] EXCEPT !.owner = owner])
          /\ IF OwnerError(owner) # None
             THEN /\ pc' = "book_raised"
                  /\ raised' = Some([type |-> "ValueError", message |-> OwnerError(owner)[1]])
             ELSE /\ pc' = "book_friend"
                  /\ UNCHANGED raised
    /\ calls' = [calls EXCEPT !.get_user = @ + 1]
    /\ UNCHANGED <<now_utc, args, cursor, result, match_vars, stored, friends,
                   results, reads, payload, response, calendar, interval_sets, overlaps, table_vars>>

\* get_friend, get_user(linked_user_id) and the checks of the friend
LoadFriend ==
    /\ pc = "book_friend"
    /\ \E friend \in FriendLookups("f1") :
        \E friend_user \in (IF friend = None \/ friend[1].linked_user_id = None
                            THEN {Unread} ELSE FriendUserRecords) :
          /\ booking' = Some([booking[1] EXCEPT !.friend = friend,
                                                !.friend_user = friend_user])
          /\ calls' = [calls EXCEPT !.get_friend = @ + 1,
                                    !.get_user = IF friend_user = Unread THEN @ ELSE @ + 1]
          /\ IF FriendError(friend, friend_user) # None
             THEN /\ pc' = "book_raised"
                  /\ raised' = Some([type |-> "ValueError",
                                     message |-> FriendError(friend, friend_user)[1]])
             ELSE /\ pc' = "book_create"
                  /\ UNCHANGED raised
    /\ UNCHANGED <<now_utc, args, cursor, result, match_vars, stored, friends,
                   results, reads, payload, response, calendar, interval_sets, overlaps, table_vars>>

\* the event body is built and create_event is called once: the provider
\* stores the event (with or without refreshed credentials), or refuses
CreateEvent ==
    /\ pc = "book_create"
    /\ \E outcome \in {"created", "created_refreshed", "forbidden", "rejected"} :
          IF outcome \in {"created", "created_refreshed"}
          THEN /\ calendar' = Append(calendar,
                     StoredEvent(EventBody(booking[1], booking[1].owner[1],
                                           booking[1].friend_user[1])))
               /\ calls' = [calls EXCEPT !.create_event = @ + 1,
                                         !.update_user = IF outcome = "created_refreshed"
                                                         THEN @ + 1 ELSE @]
               /\ result' = Some([status |-> "scheduled", event |-> "created"])
               /\ pc' = "book_returned"
               /\ UNCHANGED raised
          ELSE /\ calls' = [calls EXCEPT !.create_event = @ + 1]
               /\ raised' = Some([type |-> "ValueError",
                                  message |-> IF outcome = "forbidden"
                                              THEN "Your Google Calendar connection is missing required permissions to create events"
                                              ELSE "Failed to create calendar event"])
               /\ pc' = "book_raised"
               /\ UNCHANGED <<calendar, result>>
    /\ UNCHANGED <<now_utc, args, cursor, match_vars, stored, friends, results, reads,
                   payload, response, booking, interval_sets, overlaps, table_vars>>

\* handle_get_events: the owner's record is checked, the provider lists the
\* events it holds and the loop keeps those made by the application
ReadEvents ==
    /\ pc \in {"book_idle", "book_returned", "book_raised"}
    /\ \E owner \in OwnerRecords :
          response' =
              IF owner = None THEN Some(ErrorResponse(404, "User not found"))
              ELSE IF owner[1].google_tokens \in {"none", "not_dict"}
              THEN Some(ErrorResponse(400, "Google Calendar is not connected"))
              ELSE IF owner[1].google_tokens = "no_refresh"
              THEN Some(ErrorResponse(400,
                     "Google Calendar connection is incomplete (missing refresh token)"))
              ELSE Some([status |-> 200, error |-> None,
                         body |-> Some(FormattedEvents(calendar))])
    /\ pc' = "events_read"
    /\ UNCHANGED <<now_utc, args, cursor, result, raised, calls, match_vars, stored, friends,
                   results, reads, payload, booking, calendar, interval_sets, overlaps, table_vars>>

BookNext ==
    \/ ScheduleCall
    \/ LoadOwner
    \/ LoadFriend
    \/ CreateEvent
    \/ ReadEvents

SpecBook == BookInit /\ [][BookNext]_vars

(***************************************************************************)
(* _intersect_multiple on its own                                          *)
(***************************************************************************)
\* the free-interval lists the expander hands on for a one-day window: sorted by
\* start, overlapping or repeated where the template's slots are
FreeLists ==
    {ExpandSlotsWithinWindow(WeeklyOf(l), 0, MinutesPerDay) :
        l \in SeqsUpTo(SlotChoices, MaxSlotsPerDay)}

IntersectInit ==
    /\ pc = "intersect"
    /\ now_utc \in NowChoices
    /\ ServiceIdle
    /\ stored = "validated"
    /\ friends = <<>> /\ results = <<>> /\ reads = <<>>
    /\ payload = None /\ response = None /\ booking = None /\ calendar = <<>>
    /\ interval_sets \in {<<a, b>> : a \in FreeLists, b \in FreeLists}
    /\ overlaps = <<>>
    /\ TablesIdle

\* _intersect_multiple([a, b], d) and _intersect_multiple([b, a], d)
IntersectBothWays ==
    /\ pc = "intersect"
    /\ \E d \in Durations :
          overlaps' = [min_duration |-> d,
                       forward  |-> IntersectMultiple(interval_sets, d),
                       backward |-> IntersectMultiple(<<interval_sets[2], interval_sets[1]>>, d)]
    /\ pc' = "intersected"
    /\ UNCHANGED <<now_utc, args, cursor, result, raised, calls, match_vars>>
    /\ UNCHANGED <<stored, friends, results, reads, payload, response, booking, calendar,
                   interval_sets, table_vars>>

IntersectNext == IntersectBothWays

SpecIntersect == IntersectInit /\ [][IntersectNext]_vars

(***************************************************************************)
(* Both operations of the service over a validated users table             *)
(***************************************************************************)
ServiceInit == Init \/ NowInit

ServiceNext == Next \/ NowNext

SpecService == ServiceInit /\ [][ServiceNext]_vars

(***************************************************************************)
(* _expand_slots_within_window and _subtract_busy_windows on their own     *)
(***************************************************************************)
\* how many busy entries the source lists at most for the reducer
MaxBusyListed == 2

\* the windows [a, b) in local minutes: from Monday 00:00, Monday 12:45 and
\* Tuesday 10:00, of length zero, 30 minutes, one day and two days
ExpandWindows ==
    {<<a, a + n>> : a \in {0, 12 * 60 + 45, MinutesPerDay + 600},
                    n \in {0, 30, MinutesPerDay, 2 * MinutesPerDay}}

\* free intervals handed to the reducer: also unsorted lists and an empty interval
IntervalChoices == {<<540, 1020>>, <<720, 780>>, <<750, 840>>, <<600, 600>>}

\* entries of the busy source on Monday: 10:00-14:00, 11:00-12:00 inside it,
\* 12:30-14:30 overlapping it, 08:00-09:30, and one whose end precedes its start
BusyEntryChoices ==
    {[start |-> FormatDatetime(x[1]), end |-> FormatDatetime(x[2])] :
        x \in {<<600, 840>>, <<660, 720>>, <<750, 870>>, <<480, 570>>, <<900, 840>>}}

\* the variables a function on its own leaves untouched
PureIdle ==
    /\ participant_reports = <<>> /\ participant_contexts = <<>> /\ cursor = 0
    /\ intervals_per_participant = <<>> /\ google_confidence_flags = <<>>
    /\ window_ranges_utc = <<>> /\ busy_seen = <<>> /\ overlap_slots = <<>>
    /\ raised = None /\ calls = NoCalls /\ stored = "validated" /\ SideIdle /\ TablesIdle

ExpandInit ==
    /\ pc = "expand"
    /\ now_utc \in NowChoices
    /\ args \in {[weekly |-> WeeklyOf(l), window_start |-> w[1], window_end |-> w[2]] :
                    l \in SeqsUpTo(SlotChoices, MaxSlotsPerDay), w \in ExpandWindows}
    /\ result = None
    /\ PureIdle

\* _expand_slots_within_window(availability, window_start, window_end)
ExpandWindow ==
    /\ pc = "expand"
    /\ result' = Some(ExpandSlotsWithinWindow(args.weekly, args.window_start,
                                              args.window_end))
    /\ pc' = "expanded"
    /\ UNCHANGED <<now_utc, args, cursor, raised, calls, match_vars, side_vars>>

SpecExpand == ExpandInit /\ [][ExpandWindow]_vars

ReduceInit ==
    /\ pc = "reduce"
    /\ now_utc \in NowChoices
    /\ args \in {[slots |-> f, busy_periods |-> b] :
                    f \in SeqsUpTo(IntervalChoices, MaxSlotsPerDay),
                    b \in SeqsUpTo(BusyEntryChoices, MaxBusyListed)}
    /\ result = None
    /\ PureIdle

\* _subtract_busy_windows(slots, _parse_busy_windows(busy_periods))
ReduceBusy ==
    /\ pc = "reduce"
    /\ result' = Some(SubtractBusyWindows(args.slots, ParseBusyWindows(args.busy_periods)))
    /\ pc' = "reduced"
    /\ UNCHANGED <<now_utc, args, cursor, raised, calls, match_vars, side_vars>>

SpecReduce == ReduceInit /\ [][ReduceBusy]_vars

(***************************************************************************)
(* The availability handler: PUT /users/{user_id}/availability             *)
(***************************************************************************)
\* how many PUT requests arrive
MaxPuts == 3

\* the users that send their availability
PutUsers == {"u0", "u1"}

\* DEFAULT_TIMEZONE
DefaultTimezone == "UTC"

\* a time text is its hour and minute digits, <<hour, minute>>; this one has
\* no such shape
NotATime == <<"9am">>

\* one item of a day's list in the payload: an object with start and end
SlotItem(start, end) == [object |-> TRUE, start |-> start, end |-> end]

\* an item that is not an object
TextItem == [object |-> FALSE, start |-> NotATime, end |-> NotATime]

\* the day lists of the payloads: empty, one slot, two overlapping slots out of
\* order, a slot that ends before it starts, an hour 24, a text that is no
\* time, and a list with an item that is no object
PutDayLists ==
    {<<>>,
     <<SlotItem(<<9, 0>>, <<17, 0>>)>>,
     <<SlotItem(<<12, 30>>, <<14, 0>>), SlotItem(<<9, 0>>, <<17, 0>>)>>,
     <<SlotItem(<<9, 0>>, <<17, 0>>), SlotItem(<<17, 0>>, <<9, 0>>)>>,
     <<SlotItem(<<9, 0>>, <<24, 0>>)>>,
     <<SlotItem(NotATime, <<17, 0>>)>>,
     <<TextItem, SlotItem(<<12, 30>>, <<14, 0>>)>>}

\* the JSON objects sent: a zone or none, and the list of Monday
PutPayloads ==
    {[timezone |-> tz, weekly |-> l] :
        tz \in {None, Some("Africa/Lagos")}, l \in PutDayLists}

\* the bodies of the requests: none, a text that is no JSON object, or a payload
PutBodies ==
    {[kind |-> "none", payload |-> None], [kind |-> "text", payload |-> None]}
    \cup {[kind |-> "object", payload |-> Some(p)] : p \in PutPayloads}

\* TIME_REGEX.fullmatch(value): the text has the shape HH:MM
TimeMatches(value) == Len(value) = 2

\* _parse_time(value): the hour and minute, or None where it raises ValueError
ParseTime(value) ==
    IF ~TimeMatches(value) THEN None
    ELSE IF ~(0 <= value[1] /\ value[1] <= 23 /\ 0 <= value[2] /\ value[2] <= 59) THEN None
    ELSE Some(value)

\* TimeSlot.from_mapping(data): the slot, or None where it raises ValueError
FromMapping(data) ==
    IF ParseTime(data.start) = None \/ ParseTime(data.end) = None THEN None
    ELSE LET start == ParseTime(data.start)[1]
             end   == ParseTime(data.end)[1]
         IN  IF start[1] > end[1] \/ (start[1] = end[1] /\ start[2] >= end[2]) THEN None
             ELSE Some(Slot(start[1], start[2], end[1], end[2]))

\* _parse_slots that leaves out the slots from_mapping refuses
RECURSIVE ParseSlots_SkipsInvalid(_)
ParseSlots_SkipsInvalid(slots_payload) ==
    IF slots_payload = <<>> THEN Some(<<>>)
    ELSE IF ~Head(slots_payload).object \/ FromMapping(Head(slots_payload)) = None
    THEN ParseSlots_SkipsInvalid(Tail(slots_payload))
    ELSE Some(<<FromMapping(Head(slots_payload))[1]>>
              \o ParseSlots_SkipsInvalid(Tail(slots_payload))[1])

\* _parse_slots(slots_payload): the slots of the items that are objects, or None
\* where from_mapping raises
RECURSIVE ParseSlots(_)
ParseSlots(slots_payload) ==
    IF slots_payload = <<>> THEN Some(<<>>)
    ELSE LET rest == ParseSlots(Tail(slots_payload))
         IN  IF ~Head(slots_payload).object THEN rest
             ELSE IF FromMapping(Head(slots_payload)) = None \/ rest = None THEN None
             ELSE Some(<<FromMapping(Head(slots_payload))[1]>> \o rest[1])

\* _extract_timezone(payload)
ExtractTimezone(put_payload) ==
    IF put_payload.timezone = None THEN DefaultTimezone ELSE put_payload.timezone[1]

\* Availability.from_request(payload): _empty_weekly() with the parsed list of
\* every day the payload names, or None where a slot raises ValueError
FromRequest(put_payload) ==
    IF ParseSlots(put_payload.weekly) = None THEN None
    ELSE Some([timezone |-> ExtractTimezone(put_payload),
               weekly |-> [d \in DAY_KEYS |->
                             IF d = "monday" THEN ParseSlots(put_payload.weekly)[1]
                             ELSE <<>>]])

\* the response of the handler to a body it does not store
PutRejection(body) ==
    IF body.kind = "none" THEN Some(ErrorResponse(400, "Request body is required"))
    ELSE IF body.kind = "text" THEN Some(ErrorResponse(400, "Invalid JSON payload"))
    ELSE IF FromRequest(body.payload[1]) = None
    THEN Some(ErrorResponse(400, "Invalid availability payload"))
    ELSE None

\* a sequence without its i-th element
Without(items, i) == [n \in 1..(Len(items) - 1) |-> IF n < i THEN items[n] ELSE items[n + 1]]

PutInit ==
    /\ pc = "put"
    /\ now_utc \in NowChoices
    /\ ServiceIdle
    /\ stored = "validated"
    /\ SideIdle
    /\ tables = [u \in PutUsers |-> None]
    /\ inflight = <<>>
    /\ log = <<>>

\* handler, PUT, up to Availability.from_request: the request is answered with
\* a client error, or goes on to the table with the availability it parsed
PutReceive ==
    /\ pc = "put"
    /\ Len(log) + Len(inflight) < MaxPuts
    /\ \E user \in PutUsers, body \in PutBodies :
          IF PutRejection(body) # None
          THEN /\ log' = Append(log, [user |-> user, body |-> body,
                                      status |-> PutRejection(body)[1].status])
               /\ UNCHANGED inflight
          ELSE /\ inflight' = Append(inflight,
                                [user |-> user, body |-> body,
                                 availability |-> FromRequest(body.payload[1])[1]])
               /\ UNCHANGED log
    /\ UNCHANGED <<pc, now_utc, args, cursor, result, raised, calls, match_vars, stored,
                   friends, results, reads, payload, response, booking, calendar,
                   interval_sets, overlaps, tables>>

\* set_user_availability and the response: update_item replaces the whole
\* availability attribute of the user, or fails and the handler answers 500
PutWrite ==
    /\ pc = "put"
    /\ \E i \in 1..Len(inflight), written \in BOOLEAN :
          /\ tables' = IF written
                       THEN [tables EXCEPT ![inflight[i].user] = Some(inflight[i].availability)]
                       ELSE tables
          /\ log' = Append(log, [user |-> inflight[i].user, body |-> inflight[i].body,
                                 status |-> IF written THEN 200 ELSE 500])
          /\ inflight' = Without(inflight, i)
    /\ UNCHANGED <<pc, now_utc, args, cursor, result, raised, calls, match_vars, stored,
                   friends, results, reads, payload, response, booking, calendar,
                   interval_sets, overlaps>>

PutNext ==
    \/ PutReceive
    \/ PutWrite

SpecPut == PutInit /\ [][PutNext]_vars

(***************************************************************************)
(* The friends handler: POST and DELETE /users/{user_id}/friends           *)
(***************************************************************************)
\* how many add and remove requests arrive
MaxFriendRequests == 3

\* the accounts users_table holds, and an id it does not hold
AppUsers == {"u0", "u1"}
AppUserIds == AppUsers \cup {"u9"}

\* the contacts contacts_table holds, as <<user_id, contact_id>>, and the ids asked
Contacts == {<<"u0", "c1">>}
ContactIds == {"c1"}

\* f"{friend_type}#{reference_id}"
FriendKey(friend_type, reference_id) == <<friend_type, reference_id>>

\* the JSON bodies of POST: sourceType with the id it needs
AddBodies ==
    {[sourceType |-> "app_user", id |-> a] : a \in AppUserIds}
    \cup {[sourceType |-> "contact", id |-> c] : c \in ContactIds}
    \cup {[sourceType |-> "group", id |-> "c1"]}

\* the friend_id path parameters of DELETE
RemoveKeys ==
    {FriendKey("app_user", a) : a \in AppUsers} \cup {FriendKey("contact", c) : c \in ContactIds}

\* _build_friend_item; created_at is the number of the request
BuildFriendItem(user_id, friend_type, reference_id, linked_user_id, created_at) ==
    [user_id |-> user_id, friend_id |-> FriendKey(friend_type, reference_id),
     friend_type |-> friend_type, reference_id |-> reference_id,
     linked_user_id |-> linked_user_id, created_at |-> created_at]

\* the checks of _handle_add_friend, add_friend_from_contact and
\* add_friend_from_app_user that precede the put: the error response, or None
AddRejection(user_id, body) ==
    IF body.sourceType \notin {"contact", "app_user"}
    THEN Some(ErrorResponse(400, "sourceType must be 'contact' or 'app_user'"))
    ELSE IF body.sourceType = "contact"
    THEN IF <<user_id, body.id>> \notin Contacts
         THEN Some(ErrorResponse(400, "Contact not found")) ELSE None
    ELSE IF user_id = body.id
    THEN Some(ErrorResponse(400, "Cannot add yourself as a friend"))
    ELSE IF body.id \notin AppUsers
    THEN Some(ErrorResponse(400, "Meaningful user not found"))
    ELSE None

\* the items of the table under the key of the item
SameKey(table, user_id, friend_id) ==
    {x \in table : x.user_id = user_id /\ x.friend_id = friend_id}

\* put_item without the ConditionExpression: the item replaces the one stored
PutFriendItem_Unconditional(table, item) ==
    [failed |-> FALSE,
     table |-> (table \ SameKey(table, item.user_id, item.friend_id)) \cup {item}]

\* _put_friend_item: put_item with attribute_not_exists(friend_id)
PutFriendItem(table, item) ==
    IF SameKey(table, item.user_id, item.friend_id) # {}
    THEN [failed |-> TRUE, table |-> table]
    ELSE [failed |-> FALSE, table |-> table \cup {item}]

\* remove_friend: delete_item with attribute_exists(friend_id)
DeleteFriendItem(table, user_id, friend_id) ==
    IF SameKey(table, user_id, friend_id) = {}
    THEN [failed |-> TRUE, table |-> table]
    ELSE [failed |-> FALSE, table |-> table \ SameKey(table, user_id, friend_id)]

FriendsInit ==
    /\ pc = "friends"
    /\ now_utc \in NowChoices
    /\ ServiceIdle
    /\ stored = "validated"
    /\ SideIdle
    /\ tables = {}
    /\ inflight = <<>>
    /\ log = <<>>

\* the variables the friends handler leaves alone
friends_frame ==
    <<pc, now_utc, args, cursor, result, raised, calls, match_vars, stored, friends,
      results, reads, payload, response, booking, calendar, interval_sets, overlaps>>

\* _handle_add_friend up to the put: the request is answered 400, or the
\* friend item is built from the contact or the account that was read
AddReceive ==
    /\ pc = "friends"
    /\ Len(log) + Len(inflight) < MaxFriendRequests
    /\ \E user_id \in AppUsers, body \in AddBodies :
          IF AddRejection(user_id, body) # None
          THEN /\ log' = Append(log, [op |-> "add", user_id |-> user_id,
                                      friend_id |-> FriendKey(body.sourceType, body.id),
                                      status |-> AddRejection(user_id, body)[1].status,
                                      present |-> FALSE, changed |-> FALSE])
               /\ UNCHANGED inflight
          ELSE /\ inflight' = Append(inflight,
                    BuildFriendItem(user_id, body.sourceType, body.id,
                                    IF body.sourceType = "app_user" THEN Some(body.id)
                                    ELSE None,
                                    Len(log) + Len(inflight) + 1))
               /\ UNCHANGED log
    /\ UNCHANGED tables
    /\ UNCHANGED friends_frame

\* _put_friend_item and the response: 201, 409 when the condition fails, 500
\* when the table refuses the write for another reason
AddPut ==
    /\ pc = "friends"
    /\ \E i \in 1..Len(inflight), refused \in BOOLEAN :
          \E put \in {IF refused THEN [failed |-> TRUE, table |-> tables]
                      ELSE PutFriendItem(tables, inflight[i])} :
             /\ tables' = put.table
             /\ log' = Append(log,
                    [op |-> "add", user_id |-> inflight[i].user_id,
                     friend_id |-> inflight[i].friend_id,
                     status |-> IF refused THEN 500 ELSE IF put.failed THEN 409 ELSE 201,
                     present |-> SameKey(tables, inflight[i].user_id,
                                         inflight[i].friend_id) # {},
                     changed |-> put.table # tables])
             /\ inflight' = Without(inflight, i)
    /\ UNCHANGED friends_frame

\* _handle_remove_friend: 200, 404 when the condition fails
RemoveFriend ==
    /\ pc = "friends"
    /\ Len(log) + Len(inflight) < MaxFriendRequests
    /\ \E user_id \in AppUsers, friend_id \in RemoveKeys :
          \E del \in {DeleteFriendItem(tables, user_id, friend_id)} :
             /\ tables' = del.table
             /\ log' = Append(log,
                    [op |-> "remove", user_id |-> user_id, friend_id |-> friend_id,
                     status |-> IF del.failed THEN 404 ELSE 200,
                     present |-> SameKey(tables, user_id, friend_id) # {},
                     changed |-> del.table # tables])
    /\ UNCHANGED inflight
    /\ UNCHANGED friends_frame

FriendsNext ==
    \/ AddReceive
    \/ AddPut
    \/ RemoveFriend

SpecFriends == FriendsInit /\ [][FriendsNext]_vars

(***************************************************************************)
(* PhoneAuthService: send_verification_code and verify_code for one phone  *)
(***************************************************************************)
CODE_EXPIRY_MINUTES == 10

\* how many codes are sent, how many verify_code calls are made, and how far
\* the clock moves
MaxSends == 2
MaxVerifies == 3
MaxTicks == 2

\* the minutes between two readings of the clock
ClockStep == 6

\* the codes secrets.randbelow can draw, and the ones a caller types
Codes == {"111111", "222222"}

\* the item send_verification_code puts; issue numbers the codes sent
VerificationItem(code, now, issue) ==
    [code |-> code, expires_at |-> now + CODE_EXPIRY_MINUTES, verified |-> FALSE,
     issue |-> issue]

\* the checks of verify_code on the item it read: the error message, or None
VerifyError(item, code, now) ==
    IF item = None
    THEN Some("Verification code not found. Please request a new code.")
    ELSE IF item[1].verified
    THEN Some("This code has already been used. Please request a new code.")
    ELSE IF now > item[1].expires_at
    THEN Some("Verification code has expired. Please request a new code.")
    ELSE IF item[1].code # code
    THEN Some("Invalid verification code. Please try again.")
    ELSE None

VerifyInit ==
    /\ pc = "verify"
    /\ now_utc \in NowChoices
    /\ ServiceIdle
    /\ stored = "validated"
    /\ SideIdle
    /\ tables = [item |-> None, sent |-> 0, started |-> 0, ticks |-> 0]
    /\ inflight = <<>>
    /\ log = <<>>

\* the variables the phone service leaves alone
verify_frame ==
    <<pc, args, cursor, result, raised, calls, match_vars, stored, friends, results,
      reads, payload, response, booking, calendar, interval_sets, overlaps>>

\* time passes
Tick ==
    /\ pc = "verify"
    /\ tables.ticks < MaxTicks
    /\ now_utc' = now_utc + ClockStep
    /\ tables' = [tables EXCEPT !.ticks = @ + 1]
    /\ UNCHANGED <<inflight, log>>
    /\ UNCHANGED verify_frame

\* send_verification_code: put_item replaces the item of the phone number
SendCode ==
    /\ pc = "verify"
    /\ tables.sent < MaxSends
    /\ \E code \in Codes :
          tables' = [tables EXCEPT !.item = Some(VerificationItem(code, now_utc, tables.sent + 1)),
                                   !.sent = @ + 1]
    /\ UNCHANGED <<now_utc, inflight, log>>
    /\ UNCHANGED verify_frame

\* verify_code up to get_item: the call holds the item it read
VerifyRead ==
    /\ pc = "verify"
    /\ tables.started < MaxVerifies
    /\ \E code \in Codes :
          inflight' = Append(inflight, [code |-> code, item |-> tables.item])
    /\ tables' = [tables EXCEPT !.started = @ + 1]
    /\ UNCHANGED <<now_utc, log>>
    /\ UNCHANGED verify_frame

\* verify_code from the checks on: a failure is returned, or update_item sets
\* verified on the item the table holds now and the call succeeds
VerifyFinish ==
    /\ pc = "verify"
    /\ \E i \in 1..Len(inflight) :
          \E error \in {VerifyError(inflight[i].item, inflight[i].code, now_utc)} :
             /\ tables' = IF error = None /\ tables.item # None
                          THEN [tables EXCEPT !.item = Some([@[1] EXCEPT !.verified = TRUE])]
                          ELSE tables
             /\ log' = Append(log, [code |-> inflight[i].code, item |-> inflight[i].item,
                                    now |-> now_utc, success |-> error = None,
                                    error |-> error, before |-> tables.item])
             /\ inflight' = Without(inflight, i)
    /\ UNCHANGED now_utc
    /\ UNCHANGED verify_frame

VerifyNext ==
    \/ Tick
    \/ SendCode
    \/ VerifyRead
    \/ VerifyFinish

SpecVerify == VerifyInit /\ [][VerifyNext]_vars

\* _handle_match_slot: the HTTP status the handler answers with
HttpStatus ==
    IF pc = "returned" THEN 200
    ELSE IF pc = "raised" /\ raised[1].type = "ValueError" THEN 400
    ELSE 500

(***************************************************************************)
(* Vocabulary of the properties                                            *)
(***************************************************************************)
Returned == pc = "returned"
Matched == Returned /\ result[1].status = "matched"
Participants == 1..Len(participant_contexts)
AllResolved == Len(participant_contexts) = Len(args.friend_ids) + 1

\* the instants of a slot of the result
SlotInstants(d) == <<ParseDatetime(d.start), ParseDatetime(d.end)>>

\* the recommendation followed by the alternatives, as instants
ReturnedSlots ==
    IF result = None \/ result[1].recommendation = None THEN <<>>
    ELSE <<SlotInstants(result[1].recommendation[1])>>
         \o [i \in 1..Len(result[1].alternatives) |->
                SlotInstants(result[1].alternatives[i])]

\* the calendar days (local midnights) of the search window of participant k
WindowDaysOf(k) ==
    LET w == LocalWindow(participant_contexts[k])
    IN  {w[1] + i * MinutesPerDay : i \in 0..(args.window_days - 1)}

\* the template slots of participant k anchored on the days of k's search
\* window, as UTC intervals
AnchoredSlots(k) ==
    LET c == participant_contexts[k]
    IN  UNION {{<<ToUtc(day + MinuteOfDay(c.availability[DayKey(day)][i].start),
                        c.timezone_name),
                  ToUtc(day + MinuteOfDay(c.availability[DayKey(day)][i].end),
                        c.timezone_name)>> :
                    i \in 1..Len(c.availability[DayKey(day)])} :
               day \in WindowDaysOf(k)}

\* the valid busy intervals the source reported for participant k
ValidBusy(k) ==
    {<<ParseDatetime(busy_seen[k][i].start), ParseDatetime(busy_seen[k][i].end)>> :
        i \in {j \in 1..Len(busy_seen[k]) :
                ParseDatetime(busy_seen[k][j].end) > ParseDatetime(busy_seen[k][j].start)}}

\* the calendar of participant k is connected
Connected(k) == participant_contexts[k].google_tokens

\* the instant p is free time of participant k by the template
TemplateFreeAt(k, p) == \E I \in AnchoredSlots(k) : I[1] <= p /\ p < I[2]

\* [a, b) is free time of participant k: inside k's window, covered by the union
\* of k's anchored template slots and, with a connected calendar, touched by no
\* valid busy interval
FreeFor(k, a, b) ==
    /\ WindowRangeUtc(participant_contexts[k])[1] <= a
    /\ b <= WindowRangeUtc(participant_contexts[k])[2]
    /\ TemplateFreeAt(k, a)
    /\ \A I \in AnchoredSlots(k) : (a <= I[2] /\ I[2] < b) => TemplateFreeAt(k, I[2])
    /\ Connected(k) => \A B \in ValidBusy(k) : B[2] <= a \/ B[1] >= b

CommonFree(a, b) == \A k \in Participants : FreeFor(k, a, b)

\* the instants at which a common free period can begin: a window start, a slot
\* start or the end of a busy interval
PeriodStarts ==
    UNION {{I[1] : I \in AnchoredSlots(k)} \cup {B[2] : B \in ValidBusy(k)}
           \cup {WindowRangeUtc(participant_contexts[k])[1]} : k \in Participants}

\* the starts of the common free periods of at least duration_minutes
CommonStarts == {a \in PeriodStarts : CommonFree(a, a + args.duration_minutes)}

(***************************************************************************)
(* Slots inside everyone's free time                                       *)
(***************************************************************************)
\* the slot S lies inside one template slot of participant k anchored on a day
\* of k's search window
InsideTemplate(k, S) == \E I \in AnchoredSlots(k) : I[1] <= S[1] /\ S[2] <= I[2]

\* the slot S touches no valid busy interval reported for participant k
ClearOfBusy(k, S) == \A B \in ValidBusy(k) : B[2] <= S[1] \/ B[1] >= S[2]

\* C1: every returned slot (the recommendation and each alternative) lies, for
\* every participant, inside a template slot of that participant anchored on a
\* day of the participant's search window and, when the participant's calendar
\* is connected, overlaps no valid busy interval the source reported
C1_SlotsInsideFreeTime ==
    Returned =>
        \A i \in 1..Len(ReturnedSlots) : \A k \in Participants :
            /\ InsideTemplate(k, ReturnedSlots[i])
            /\ Connected(k) => ClearOfBusy(k, ReturnedSlots[i])

\* a match with an alternative where a connected participant has a valid busy
\* interval that cuts one of their own template slots
C1_Witness ==
    /\ Matched
    /\ Len(ReturnedSlots) >= 2
    /\ \E k \in Participants :
          /\ Connected(k)
          /\ \E B \in ValidBusy(k), I \in AnchoredSlots(k) : I[1] < B[2] /\ B[1] < I[2]

(***************************************************************************)
(* no_overlap versus an existing common period                             *)
(***************************************************************************)
\* C2: when every participant is resolved and a period of at least
\* duration_minutes exists that is free for every participant, the returned
\* status is matched; no_overlap is returned only when no such period exists
C2_NoOverlapOnlyWithoutCommonPeriod ==
    (Returned /\ AllResolved /\ CommonStarts # {}) => result[1].status = "matched"

(***************************************************************************)
(* Slot length                                                             *)
(***************************************************************************)
\* C3: every returned slot is exactly duration_minutes long
C3_SlotLengthIsDuration ==
    Returned =>
        \A i \in 1..Len(ReturnedSlots) :
            ReturnedSlots[i][2] - ReturnedSlots[i][1] = args.duration_minutes

\* a match with an alternative, cut from a common window longer than the slots
C3_Witness ==
    /\ Matched
    /\ Len(ReturnedSlots) >= 2
    /\ \E w \in 1..Len(IntersectMultiple(intervals_per_participant, args.duration_minutes)) :
          LET window == IntersectMultiple(intervals_per_participant,
                                          args.duration_minutes)[w]
          IN  window[2] - window[1] > args.duration_minutes
                 /\ (window[2] - window[1]) % args.duration_minutes # 0

(***************************************************************************)
(* Order of the returned slots                                             *)
(***************************************************************************)
\* C4: the recommendation followed by the alternatives is strictly ascending by
\* start time and no two of the slots overlap
C4_SlotsAscendingDisjoint ==
    Returned =>
        \A i, j \in 1..Len(ReturnedSlots) :
            i < j => /\ ReturnedSlots[i][1] < ReturnedSlots[j][1]
                     /\ ReturnedSlots[i][2] <= ReturnedSlots[j][1]

(***************************************************************************)
(* The cap on the suggestions                                              *)
(***************************************************************************)
\* C5: a matched result has one recommendation and at most max_suggestions - 1
\* alternatives, the slicing having stopped at max_suggestions slots; a result
\* that is not matched has no recommendation and no alternatives
C5_SuggestionCap ==
    Returned =>
        IF result[1].status = "matched"
        THEN /\ result[1].recommendation # None
             /\ Len(result[1].alternatives) <= args.max_suggestions - 1
             /\ Len(overlap_slots) <= args.max_suggestions
        ELSE /\ result[1].recommendation = None
             /\ result[1].alternatives = <<>>

\* a match that fills the cap although the common windows hold more slots
C5_Witness ==
    /\ Matched
    /\ Len(ReturnedSlots) = args.max_suggestions
    /\ \E w \in 1..Len(IntersectMultiple(intervals_per_participant, args.duration_minutes)) :
          LET window == IntersectMultiple(intervals_per_participant,
                                          args.duration_minutes)[w]
          IN  window[2] - window[1] >= (args.max_suggestions + 1) * args.duration_minutes

(***************************************************************************)
(* The recommendation is the earliest common period                        *)
(***************************************************************************)
\* C6: the recommendation starts at the start of the earliest common free
\* period of at least duration_minutes and is duration_minutes long, and no
\* alternative starts before the recommendation
C6_RecommendationIsEarliest ==
    Matched =>
        /\ ReturnedSlots[1][1] \in CommonStarts
        /\ \A a \in CommonStarts : ReturnedSlots[1][1] <= a
        /\ ReturnedSlots[1][2] = ReturnedSlots[1][1] + args.duration_minutes
        /\ \A i \in 2..Len(ReturnedSlots) : ReturnedSlots[i][1] >= ReturnedSlots[1][1]

(***************************************************************************)
(* A participant without free time                                         *)
(***************************************************************************)
\* participant k has no template slot on any day of the search window
NoFreeTime(k) == AnchoredSlots(k) = {}

\* C7: when every participant is resolved and one of them has no free interval
\* inside the search window, the call returns no_overlap with no
\* recommendation, no alternatives and a note, whatever the others have
C7_EmptyParticipantGivesNoOverlap ==
    (/\ pc \in {"returned", "raised"}
     /\ ValidationError(args) = None
     /\ AllResolved
     /\ \E k \in Participants : NoFreeTime(k))
        => /\ pc = "returned"
           /\ result[1].status = "no_overlap"
           /\ result[1].recommendation = None
           /\ result[1].alternatives = <<>>
           /\ result[1].notes # <<>>

(***************************************************************************)
(* Confidence                                                              *)
(***************************************************************************)
\* C8: the confidence of a recommendation is high when the free windows of
\* every participant were computed with live busy data, medium when those of
\* some but not all were, low when those of none were
C8_ConfidenceFollowsLiveData ==
    Matched =>
        LET live == {k \in Participants : Connected(k)}
            confidence == result[1].recommendation[1].confidence
        IN  /\ calls.get_busy_periods = Cardinality(live)
            /\ confidence = (IF live = Participants THEN "high"
                              ELSE IF live # {} THEN "medium" ELSE "low")

\* a match of two participants of whom exactly one has a connected calendar
C8_Witness ==
    /\ Matched
    /\ result[1].recommendation[1].confidence = "medium"
    /\ \E k, j \in Participants : Connected(k) /\ ~Connected(j)

(***************************************************************************)
(* Invalid requests                                                        *)
(***************************************************************************)
\* the request the spec calls invalid
InvalidRequest ==
    \/ args.friend_ids = <<>>
    \/ args.duration_minutes <= 0
    \/ args.target_days_ahead < 0
    \/ args.window_days <= 0

\* C9: a request with no friend ids, a non-positive duration, a negative target
\* offset or a non-positive window length is rejected with a validation error
\* (answered 400, not a 200 result) before any friend lookup, availability
\* read, busy-source call or token write
C9_InvalidRequestRejectedFirst ==
    (pc \notin {"idle", "validate"} /\ InvalidRequest) =>
        /\ pc = "raised"
        /\ raised # None /\ raised[1].type = "ValueError"
        /\ HttpStatus = 400
        /\ result = None
        /\ calls = NoCalls
        /\ participant_reports = <<>>

\* a rejected request whose only fault is the duration
C9_Witness ==
    /\ pc = "raised"
    /\ args.friend_ids # <<>> /\ args.target_days_ahead >= 0 /\ args.window_days > 0
    /\ args.duration_minutes <= 0

(***************************************************************************)
(* needs_setup                                                             *)
(***************************************************************************)
\* the reports that are not ready
Unready == {i \in 1..Len(participant_reports) : participant_reports[i].status # "ready"}

\* C10: when a participant cannot be resolved or has no stored availability,
\* the call still resolves every other participant, returns one report for the
\* owner followed by one per requested friend in request order, with status
\* needs_setup, no recommendation and no alternatives, and asks no busy source
C10_NeedsSetupReportsEveryone ==
    (Returned /\ Unready # {}) =>
        /\ result[1].status = "needs_setup"
        /\ result[1].participants = participant_reports
        /\ Len(participant_reports) = Len(args.friend_ids) + 1
        /\ participant_reports[1].friend.friendId = "user#" \o OwnerId
        /\ \A i \in 1..Len(args.friend_ids) :
              participant_reports[i + 1].friend.friendId = args.friend_ids[i]
        /\ calls.get_friend = Len(args.friend_ids)
        /\ Len(participant_contexts) = Len(participant_reports) - Cardinality(Unready)
        /\ result[1].recommendation = None
        /\ result[1].alternatives = <<>>
        /\ result[1].notes # <<>>
        /\ calls.get_busy_periods = 0
        /\ calls.update_user = 0

\* the owner has no availability and the friends after them were still
\* resolved, the last one ready
C10_Witness ==
    /\ Returned
    /\ result[1].status = "needs_setup"
    /\ Len(args.friend_ids) = 2
    /\ participant_reports[1].status = "no_availability"
    /\ participant_reports[2].status = "missing_connection"
    /\ participant_reports[3].status = "ready"

(***************************************************************************)
(* A failing busy source during matching                                   *)
(***************************************************************************)
\* C11: once every participant of a valid request is resolved, a failure of a
\* participant's busy-source lookup does not abort the call: it still ends by
\* returning a result whose status is matched or no_overlap
C11_BusyFailureNeverAborts ==
    (pc \in {"returned", "raised"} /\ ValidationError(args) = None /\ AllResolved)
        => /\ pc = "returned"
           /\ result # None
           /\ result[1].status \in {"matched", "no_overlap"}

(***************************************************************************)
(* Symmetry of the intersection                                            *)
(***************************************************************************)
\* C20: for two free-interval lists a and b sorted by start, which may hold
\* overlapping or repeated intervals, _intersect_multiple([a, b], d) equals
\* _intersect_multiple([b, a], d) for every minimum duration d
C20_IntersectionSymmetric ==
    pc = "intersected" => overlaps.forward = overlaps.backward

(***************************************************************************)
(* Vocabulary of the properties of compute_available_now                   *)
(***************************************************************************)
\* the friends evaluated so far
Evaluated == 1..Len(results)

\* the payload the caller receives for the i-th friend
PayloadOf(i) == SerializeEvaluation(results[i])

\* the i-th friend is a linked app user whose record holds a template
HasTemplate(i) ==
    /\ friends[i].friend_type = "app_user"
    /\ reads[i].user # None
    /\ reads[i].user[1].availability # None

TemplateOf(i) == reads[i].user[1].availability[1]

\* the zone the template is read in: its own when known, UTC otherwise
ZoneOf(i) == IF TemplateOf(i).timezone \in Zones THEN TemplateOf(i).timezone ELSE "UTC"

\* minutes since the local midnight before now, and that midnight as local time
LocalNow(i) == now_utc + UtcOffset(ZoneOf(i))

\* the slots of the template on the local day that lies k days after today
DaySlots(i, k) ==
    LET day == TemplateOf(i).weekly[DayKey(LocalNow(i) + k * MinutesPerDay)]
    IN  {day[n] : n \in 1..Len(day)}

\* the instant at which the local time-of-day hm falls k days after today
InstantAt(i, k, hm) ==
    (LocalNow(i) \div MinutesPerDay + k) * MinutesPerDay + hm[1] * 60 + hm[2]
        - UtcOffset(ZoneOf(i))

\* the ends of the template slots that cover now
CoveringEnds(i) ==
    {InstantAt(i, 0, slot.end) : slot \in
        {x \in DaySlots(i, 0) : InstantAt(i, 0, x.start) <= now_utc
                                /\ now_utc < InstantAt(i, 0, x.end)}}

InsideSlot(i) == HasTemplate(i) /\ CoveringEnds(i) # {}

\* the friend's calendar is connected
LiveCalendar(i) == reads[i].user[1].google_tokens

\* the ends of the commitments of the friend's calendar that cover now
CoveringBusyEnds(i) ==
    LET held == reads[i].source.commitments
    IN  {now_utc + held[n][2] : n \in
            {m \in 1..Len(held) : now_utc + held[m][1] <= now_utc
                                  /\ now_utc < now_utc + held[m][2]}}

\* the starts of template slots strictly after now within the horizon
StartsAfterNow(i) ==
    {t \in {InstantAt(i, k[1], k[2].start) :
                k \in UNION {{<<d, slot>> : slot \in DaySlots(i, d)} : d \in 0..SearchDays}} :
        t > now_utc}

\* the least element of a non-empty set of instants
Earliest(S) == CHOOSE t \in S : \A u \in S : t <= u

\* C14: a friend inside a template slot whose calendar is connected and answers
\* is busy (calendar_busy, confidence high) exactly when the calendar holds a
\* commitment covering now, with busyUntil the end of such a commitment and
\* after now; otherwise the friend is available with confidence high and
\* availableUntil the end of the current slot.
C14_BusyExactlyWhenCoveringNow ==
    \A i \in Evaluated :
        (InsideSlot(i) /\ LiveCalendar(i) /\ ~reads[i].source.error)
            => IF CoveringBusyEnds(i) # {}
               THEN /\ PayloadOf(i).status = "busy"
                    /\ PayloadOf(i).reason = Some("calendar_busy")
                    /\ PayloadOf(i).confidence = "high"
                    /\ PayloadOf(i).busyUntil # None
                    /\ ParseDatetime(PayloadOf(i).busyUntil[1]) \in CoveringBusyEnds(i)
                    /\ ParseDatetime(PayloadOf(i).busyUntil[1]) > now_utc
               ELSE /\ PayloadOf(i).status = "available"
                    /\ PayloadOf(i).confidence = "high"
                    /\ PayloadOf(i).availableUntil # None
                    /\ ParseDatetime(PayloadOf(i).availableUntil[1]) \in CoveringEnds(i)

\* C15: a linked friend whose template covers now and who has no calendar
\* connected is reported unknown with the calendar-disconnected reason,
\* confidence low and availableUntil the end of the covering slot, and the
\* busy source is not asked for that friend.
C15_DisconnectedIsUnknownUntilSlotEnd ==
    /\ \A i \in Evaluated :
        (InsideSlot(i) /\ ~LiveCalendar(i))
            => /\ PayloadOf(i).status = "unknown"
               /\ PayloadOf(i).reason = Some("google_calendar_disconnected")
               /\ PayloadOf(i).confidence = "low"
               /\ PayloadOf(i).availableUntil # None
               /\ ParseDatetime(PayloadOf(i).availableUntil[1]) \in CoveringEnds(i)
               /\ ~reads[i].asked
    /\ calls.get_busy_periods = Cardinality({i \in 1..Len(reads) : reads[i].asked})

C15_Witness ==
    /\ pc = "now_returned"
    /\ \E i \in Evaluated :
        /\ InsideSlot(i) /\ ~LiveCalendar(i)
        /\ Cardinality(DaySlots(i, 0)) = 2
        /\ \E p \in 1..Len(result[1].unknown) :
              /\ result[1].unknown[p].friend = friends[i].friend_id
              /\ result[1].unknown[p].availableUntil = Some(FormatDatetime(14 * 60))
    /\ calls.get_busy_periods = 1

\* the source of the i-th friend was asked and failed
SourceFailed(i) == reads[i].asked /\ reads[i].source.error

\* C16: a busy-source error for one friend gives that friend status unknown
\* with the check-failed reason, confidence low and availableUntil the slot
\* end; it marks no other friend, every friend is still evaluated in list order
\* and the call returns its three lists.
C16_SourceErrorStaysWithItsFriend ==
    /\ pc # "now_raised"
    /\ \A i \in Evaluated :
        /\ PayloadOf(i).friend = friends[i].friend_id
        /\ SourceFailed(i)
            => /\ PayloadOf(i).status = "unknown"
               /\ PayloadOf(i).reason = Some("calendar_check_failed")
               /\ PayloadOf(i).confidence = "low"
               /\ PayloadOf(i).availableUntil # None
               /\ ParseDatetime(PayloadOf(i).availableUntil[1]) \in CoveringEnds(i)
        /\ ~SourceFailed(i) => PayloadOf(i).reason # Some("calendar_check_failed")
    /\ pc = "now_returned"
        => /\ Len(results) = Len(friends)
           /\ result # None
           /\ Len(result[1].available) + Len(result[1].busy) + Len(result[1].unknown)
                = Len(friends)
           /\ \A i \in Evaluated :
                \E bucket \in {result[1].available, result[1].busy, result[1].unknown} :
                    \E p \in 1..Len(bucket) : bucket[p] = PayloadOf(i)

C16_Witness ==
    /\ pc = "now_returned"
    /\ Len(friends) = 2
    /\ SourceFailed(1)
    /\ Len(result[1].unknown) = 1
    /\ Len(result[1].available) = 1
    /\ result[1].available[1].friend = friends[2].friend_id
    /\ result[1].available[1].confidence = "high"

\* C17: a friend with a template none of whose slots covers now is busy with
\* reason outside_availability, and nextAvailableAt is the earliest start of a
\* template slot strictly after now within the horizon, absent only when there
\* is none, also for day lists stored out of order.
C17_NextAvailableIsEarliestStart ==
    \A i \in Evaluated :
        (HasTemplate(i) /\ ~InsideSlot(i))
            => /\ PayloadOf(i).status = "busy"
               /\ PayloadOf(i).reason = Some("outside_availability")
               /\ PayloadOf(i).nextAvailableAt =
                    IF StartsAfterNow(i) = {} THEN None
                    ELSE Some(FormatDatetime(Earliest(StartsAfterNow(i))))

\* C12: a stored record with an unknown zone name or a malformed slot never
\* makes recommend_meeting_slot or compute_available_now raise: the zone falls
\* back to UTC, the malformed template counts as no availability, and the
\* other participants and friends are still evaluated.
C12_MalformedRecordNeverRaises ==
    /\ pc # "now_raised"
    /\ pc = "raised" => ValidationError(args) # None
    /\ \A i \in Evaluated :
        HasTemplate(i)
            => IF RecordRejected(TemplateOf(i))
               THEN PayloadOf(i).reason = Some("no_availability")
               ELSE PayloadOf(i).timezone = Some(ZoneOf(i))
    /\ pc = "now_returned" => Len(results) = Len(friends)

\* the friend ids a request body names
NamedFriends == IF payload[1].friendIds = None THEN <<>> ELSE StripFriendIds(payload[1].friendIds[1])

\* C13: a match request that names two or more friends and is otherwise well
\* formed is accepted: it is answered 200 with a result that reports the owner
\* and every named friend, and is not rejected for naming more than one friend.
C13_SeveralFriendsAccepted ==
    (/\ pc = "responded"
     /\ payload[1].parsed
     /\ Len(NamedFriends) >= 2
     /\ IntOf(payload[1].durationMinutes, DefaultDuration) # None)
        => /\ response[1].status = 200
           /\ Len(response[1].body[1].participants) = Len(NamedFriends) + 1

(***************************************************************************)
(* Vocabulary of the properties of schedule_meeting_slot                   *)
(***************************************************************************)
\* a lookup of the booking was made and answered with a record
WasRead(lookup) == lookup # Unread /\ lookup # None

\* one of the conditions under which a booking must fail
BookingDefect ==
    LET b == booking[1]
    IN  \/ /\ Len(b.start) = 3 /\ Len(b.end) = 3
           /\ ParseDatetime(b.end) <= ParseDatetime(b.start)
        \/ b.owner = None
        \/ WasRead(b.owner) /\ b.owner[1].google_tokens \in {"none", "no_refresh"}
        \/ b.friend = None
        \/ WasRead(b.friend) /\ (\/ b.friend[1].friend_type # "app_user"
                                 \/ b.friend[1].linked_user_id = None)
        \/ WasRead(b.friend_user) /\ b.friend_user[1].email \in {None, Some("")}

\* the events of the calendar that a booking created
CreatedEvents == {i \in 1..Len(calendar) : calendar[i].id = "created"}

\* C18: schedule_meeting_slot calls create_event at most once and only after
\* every check has passed; when end <= start, the owner record is missing, the
\* owner has no tokens or no refresh token, the friend relationship is missing
\* or not a linked app user, or the friend has no email, the call fails with an
\* error message, create_event is not called and nothing is written.
C18_EventCreatedOnceAfterAllChecks ==
    booking # None
        => /\ calls.create_event <= 1
           /\ Cardinality(CreatedEvents) <= calls.create_event
           /\ calls.create_event = 1
                => /\ ~BookingDefect
                   /\ WasRead(booking[1].owner)
                   /\ WasRead(booking[1].friend)
                   /\ WasRead(booking[1].friend_user)
           /\ BookingDefect
                => /\ raised # None
                   /\ raised[1].type = "ValueError"
                   /\ raised[1].message # ""
                   /\ result = None
                   /\ calls.create_event = 0
                   /\ calls.update_user = 0
                   /\ CreatedEvents = {}

C18_Witness ==
    /\ pc = "book_raised"
    /\ booking # None
    /\ WasRead(booking[1].owner)
    /\ WasRead(booking[1].friend_user)
    /\ booking[1].friend_user[1].email = Some("")
    /\ calls.get_user = 2
    /\ calls.create_event = 0

SortedDisjoint(items) ==
    \A i \in 1..Len(items), j \in 1..Len(items) :
        i < j => (items[i][1] < items[j][1] /\ items[i][2] <= items[j][1])

\* C21: for free lists that expansion produces from valid templates, the list
\* _intersect_multiple returns is sorted ascending by start and its intervals
\* do not overlap pairwise.
C21_IntersectionSortedDisjoint ==
    pc = "intersected"
        => /\ SortedDisjoint(overlaps.forward)
           /\ SortedDisjoint(overlaps.backward)

(***************************************************************************)
(* Vocabulary of the properties of the expander and the reducer            *)
(***************************************************************************)
\* the entries of the busy list that are intervals: both ends are instants
\* and the end is after the start
BusyIntervals ==
    {<<ParseDatetime(args.busy_periods[n].start), ParseDatetime(args.busy_periods[n].end)>> :
        n \in {m \in 1..Len(args.busy_periods) :
                 ParseDatetime(args.busy_periods[m].end)
                    > ParseDatetime(args.busy_periods[m].start)}}

\* the instant t lies in one of the intervals
CoveredBy(t, intervals) == \E v \in intervals : v[1] <= t /\ t < v[2]

\* the intervals of a list
Members(items) == {items[n] : n \in 1..Len(items)}

\* the starts of a list never decrease
AscendingStarts(items) ==
    \A i \in 1..Len(items), j \in 1..Len(items) : i < j => items[i][1] <= items[j][1]

\* the instants of Monday on which the reducer is compared
Instants == 0..MinutesPerDay

\* C22: subtracting an empty busy list gives back the free list itself, with
\* the same intervals in the same order.
C22_EmptyBusyIsIdentity ==
    (pc = "reduced" /\ BusyIntervals = {}) => result = Some(args.slots)

C22_Witness ==
    /\ pc = "reduced"
    /\ args.busy_periods = <<>>
    /\ args.slots = <<(<<750, 840>>), (<<600, 600>>)>>
    /\ result = Some(args.slots)

\* C26: for a free list sorted by start and busy intervals listed in any
\* order, the reducer returns intervals of positive length, sorted by start,
\* that cover exactly the free instants no busy interval covers.
C26_ReducerRemovesExactlyBusyTime ==
    (/\ pc = "reduced"
     /\ AscendingStarts(args.slots)
     /\ \A v \in Members(args.slots) : v[1] < v[2])
        => /\ \A v \in Members(result[1]) : v[1] < v[2]
           /\ AscendingStarts(result[1])
           /\ \A t \in Instants :
                CoveredBy(t, Members(result[1]))
                    <=> (CoveredBy(t, Members(args.slots)) /\ ~CoveredBy(t, BusyIntervals))

C26_Witness ==
    /\ pc = "reduced"
    /\ args.slots = <<(<<540, 1020>>), (<<720, 780>>)>>
    /\ Len(args.busy_periods) = 2
    /\ BusyIntervals = {<<750, 870>>, <<600, 840>>}
    /\ ParseDatetime(args.busy_periods[1].start) = 750
    /\ result = Some(<<(<<540, 600>>), (<<870, 1020>>)>>)

\* the calendar days the window [a, b) touches, counted from the first Monday
ExpandedDays(a, b) ==
    {d \in 0..(b \div MinutesPerDay) :
        d * MinutesPerDay + MinutesPerDay > a /\ d * MinutesPerDay < b}

\* a template slot anchored on a day: the day and the slot's place in that day's list
Anchors ==
    UNION {{<<d, n>> : n \in 1..Len(args.weekly[DayKey(d * MinutesPerDay)])} :
              d \in ExpandedDays(args.window_start, args.window_end)}

\* the range of an anchored template slot
AnchoredRange(anchor) ==
    LET slot == args.weekly[DayKey(anchor[1] * MinutesPerDay)][anchor[2]]
    IN  <<anchor[1] * MinutesPerDay + MinuteOfDay(slot.start),
          anchor[1] * MinutesPerDay + MinuteOfDay(slot.end)>>

\* the part of an anchored template slot that lies inside the window
Clip(anchor) ==
    <<Max2(AnchoredRange(anchor)[1], args.window_start),
      Min2(AnchoredRange(anchor)[2], args.window_end)>>

\* the anchored template slots that have a part inside the window
LiveAnchors == {anchor \in Anchors : Clip(anchor)[1] < Clip(anchor)[2]}

\* the anchored ranges that contain the interval
Containing(v) ==
    {AnchoredRange(anchor) : anchor \in
        {x \in Anchors : AnchoredRange(x)[1] <= v[1] /\ v[2] <= AnchoredRange(x)[2]}}

C23_ZeroLengthWitness ==
    /\ pc = "expanded"
    /\ args.window_start = 12 * 60 + 45
    /\ args.window_end = args.window_start
    /\ args.weekly["monday"] # <<>>
    /\ result = Some(<<>>)

(***************************************************************************)
(* The search windows of recommend_meeting_slot                            *)
(***************************************************************************)
\* the search window of participant k in UTC: from the midnight, on k's own
\* clock, of the day target_days_ahead days after now, for window_days days
OwnWindow(k) ==
    LET offset     == UtcOffset(participant_contexts[k].timezone_name)
        days_ahead == (now_utc + offset) \div MinutesPerDay + args.target_days_ahead
    IN  <<days_ahead * MinutesPerDay - offset,
          (days_ahead + args.window_days) * MinutesPerDay - offset>>

\* C27: when all participants resolve, each participant's window starts at the
\* midnight of that participant's own zone target_days_ahead days after now and
\* lasts window_days days; the reported search window runs from the earliest
\* start to the latest end, and every returned slot lies inside every window.
C27_WindowsAnchoredInOwnZone ==
    (Returned /\ AllResolved)
        => /\ Len(window_ranges_utc) = Len(participant_contexts)
           /\ \A k \in Participants : window_ranges_utc[k] = OwnWindow(k)
           /\ \E k \in Participants :
                /\ result[1].searchWindow.startsAt = FormatDatetime(OwnWindow(k)[1])
                /\ \A j \in Participants : OwnWindow(k)[1] <= OwnWindow(j)[1]
           /\ \E k \in Participants :
                /\ result[1].searchWindow.endsAt = FormatDatetime(OwnWindow(k)[2])
                /\ \A j \in Participants : OwnWindow(k)[2] >= OwnWindow(j)[2]
           /\ \A n \in 1..Len(ReturnedSlots), k \in Participants :
                /\ OwnWindow(k)[1] <= ReturnedSlots[n][1]
                /\ ReturnedSlots[n][2] <= OwnWindow(k)[2]

\* at Monday 23:30 UTC it is already Tuesday in Lagos: the owner's window and
\* the friend's differ, and a slot was found
C27_Witness ==
    /\ Matched /\ AllResolved
    /\ Len(participant_contexts) = 2
    /\ participant_contexts[1].timezone_name = "UTC"
    /\ participant_contexts[2].timezone_name = "Africa/Lagos"
    /\ args.target_days_ahead = 0
    /\ window_ranges_utc[1] = <<0, args.window_days * MinutesPerDay>>
    /\ window_ranges_utc[2][1] = 23 * 60
    /\ result[1].searchWindow.startsAt = FormatDatetime(0)
    /\ result[1].searchWindow.endsAt
          = FormatDatetime(23 * 60 + args.window_days * MinutesPerDay)

(***************************************************************************)
(* The three lists of compute_available_now                                *)
(***************************************************************************)
\* the entries of a returned list that belong to the friend
EntriesOf(bucket, friend_id) == {p \in 1..Len(bucket) : bucket[p].friend = friend_id}

\* C28: every friend of the user is in exactly one of the lists available, busy
\* and unknown, exactly once; the lists hold as many entries as the user has
\* friends, and each entry is in the list its own status names.
C28_EveryFriendClassifiedOnce ==
    pc = "now_returned"
        => /\ \A i \in 1..Len(friends) :
                Cardinality(EntriesOf(result[1].available, friends[i].friend_id))
                  + Cardinality(EntriesOf(result[1].busy, friends[i].friend_id))
                  + Cardinality(EntriesOf(result[1].unknown, friends[i].friend_id)) = 1
           /\ Len(result[1].available) + Len(result[1].busy) + Len(result[1].unknown)
                = Len(friends)
           /\ \A p \in 1..Len(result[1].available) :
                result[1].available[p].status = "available"
           /\ \A p \in 1..Len(result[1].busy) : result[1].busy[p].status = "busy"
           /\ \A p \in 1..Len(result[1].unknown) :
                result[1].unknown[p].status = "unknown"

\* two friends, the first busy, the second a contact without an account
C28_Witness ==
    /\ pc = "now_returned"
    /\ Len(friends) = 2
    /\ friends[2].friend_type = "contact"
    /\ Len(result[1].busy) = 1
    /\ result[1].busy[1].friend = friends[1].friend_id
    /\ Len(result[1].unknown) = 1
    /\ result[1].unknown[1].friend = friends[2].friend_id
    /\ result[1].available = <<>>

(***************************************************************************)
(* Refreshed credentials whose write to the users table fails              *)
(***************************************************************************)
\* the evaluation of the i-th friend, had update_item taken the write
EvaluationWritten(i) ==
    EvaluateFriendRecord(friends[i], reads[i].user,
                         [reads[i].source EXCEPT !.written = TRUE], now_utc)

\* a write of refreshed credentials failed during the call
WriteFailed ==
    \E k \in 1..Len(reads) :
        IF pc \in {"returned", "raised"}
        THEN participant_contexts[k].google_tokens /\ reads[k].refreshed /\ ~reads[k].written
        ELSE reads[k].asked /\ reads[k].source.refreshed /\ ~reads[k].source.written

\* the free windows of participant k by the busy list the source gave
FreeWindowsSeen(k) ==
    ComputeFreeWindows(participant_contexts[k], LocalWindow(participant_contexts[k])[1],
                       LocalWindow(participant_contexts[k])[2], busy_seen[k])

\* what the loop of recommend_meeting_slot holds when every write is taken
LoopWritten ==
    [window_ranges_utc |-> [k \in Participants |-> WindowRangeUtc(participant_contexts[k])],
     intervals_per_participant |-> [k \in Participants |-> FreeWindowsSeen(k)],
     google_confidence_flags |-> [k \in Participants |-> participant_contexts[k].google_tokens]]

\* C25: when the busy source hands out refreshed credentials and writing them
\* to the users table fails, recommend_meeting_slot and compute_available_now
\* end exactly as they would have, had the write succeeded: same result, and a
\* raise only where the source itself failed.
C25_FailedWriteChangesNothing ==
    /\ (pc \in {"returned", "raised"} /\ reads # <<>>)
        => IF pc = "raised"
           THEN raised = Some([type |-> "RuntimeError",
                               message |-> "Google Calendar API error"])
           ELSE /\ Len(busy_seen) = Len(participant_contexts)
                /\ result = Some(MatchResult(LoopWritten,
                                    SlicedSlots(LoopWritten.intervals_per_participant)))
    /\ pc \in {"now_evaluate", "now_returned", "now_raised"}
        => /\ pc # "now_raised"
           /\ Len(results) = Len(reads)
           /\ \A i \in 1..Len(reads) : results[i] = EvaluationWritten(i)
           /\ pc = "now_returned"
                => /\ Len(reads) = Len(friends)
                   /\ \A i \in 1..Len(friends) :
                        \E bucket \in {result[1].available, result[1].busy,
                                       result[1].unknown} :
                            \E p \in 1..Len(bucket) :
                                bucket[p] = SerializeEvaluation(EvaluationWritten(i))

\* the friend's refreshed credentials could not be written, the owner's
\* calendar holds a commitment, and a slot is still recommended
C25_Witness ==
    /\ Matched
    /\ Len(reads) = 2
    /\ reads[2].refreshed /\ ~reads[2].written
    /\ busy_seen[1] # <<>>
    /\ calls.update_user = 1
    /\ WriteFailed

\* a friend is reported busy by the calendar although the write failed
C25_NowWitness ==
    /\ pc = "now_returned"
    /\ WriteFailed
    /\ Len(result[1].busy) = 1
    /\ result[1].busy[1].reason = Some("calendar_busy")

(***************************************************************************)
(* The stored template under PUT requests                                  *)
(***************************************************************************)
\* the requests of the user that were answered 200, by their place in the log
Accepted(user) == {n \in 1..Len(log) : log[n].user = user /\ log[n].status = 200}

\* the last of them
LastAccepted(user) == CHOOSE n \in Accepted(user) : \A m \in Accepted(user) : m <= n

\* the text is a time of day HH:MM
WellTimed(text) == Len(text) = 2 /\ text[1] \in 0..23 /\ text[2] \in 0..59

\* the item is a slot whose times are no times of day or do not ascend
InvalidSlot(item) ==
    /\ item.object
    /\ \/ ~WellTimed(item.start)
       \/ ~WellTimed(item.end)
       \/ MinuteOfDay(item.start) >= MinuteOfDay(item.end)

IsObject(item) == item.object

\* the template a payload stands for: its zone, UTC when it names none, the
\* slots of Monday in the order given, and no slot on the other six days
TemplateOfPayload(put_payload) ==
    [timezone |-> IF put_payload.timezone = None THEN "UTC" ELSE put_payload.timezone[1],
     weekly |-> [d \in DAY_KEYS |->
                    IF d = "monday"
                    THEN [n \in 1..Len(SelectSeq(put_payload.weekly, IsObject)) |->
                            [start |-> SelectSeq(put_payload.weekly, IsObject)[n].start,
                             end |-> SelectSeq(put_payload.weekly, IsObject)[n].end]]
                    ELSE <<>>]]

SucceededWith(issue) ==
    {n \in 1..Len(log) : log[n].success /\ log[n].item # None /\ log[n].item[1].issue = issue}

\* C30: for one issued code at most one verify_code call succeeds, also when
\* two calls with the right code run concurrently; once the stored code is
\* marked used a call fails as already used; an expired or non-matching code
\* never succeeds.
C30_CodeIsSingleUse ==
    pc = "verify"
        => /\ \A issue \in 1..MaxSends : Cardinality(SucceededWith(issue)) <= 1
           /\ \A n \in 1..Len(log) :
                /\ (log[n].before # None /\ log[n].before[1].verified) => ~log[n].success
                /\ log[n].success
                    => /\ log[n].item # None
                       /\ log[n].item[1].code = log[n].code
                       /\ log[n].now <= log[n].item[1].expires_at
====
